---- MODULE Spec2Model ----
(***************************************************************************)
(* REVLOG -> WPILOG conversion (src/src/lib/revlogParser.ts) and the DBC   *)
(* catalogue / CAN decoder it uses (revDBC, src/unnamed/part_000).         *)
(*                                                                         *)
(* Representation.                                                         *)
(*   Buffer          a sequence of bytes (0..255)                          *)
(*   string          a sequence of one-character strings; Buffer.from(s)   *)
(*                   maps it to its ASCII codes                            *)
(*   64-bit unsigned a sequence of 8 bytes, little-endian (the layout      *)
(*                   writeBigUInt64LE / readBigUInt64LE use), because the  *)
(*                   values exceed 32-bit integers                         *)
(*   bigint          [t |-> "bigint", neg, mag] sign and 64-bit magnitude  *)
(*   number          [t |-> "number", b] the 8 bytes of its IEEE-754       *)
(*                   binary64 encoding, little-endian                      *)
(***************************************************************************)
EXTENDS Integers, Sequences, FiniteSets, TLC

(***************************************************************************)
(* Bytes, bits and little-endian integers                                  *)
(***************************************************************************)
RECURSIVE Pow2(_)
Pow2(n) == IF n = 0 THEN 1 ELSE 2 * Pow2(n - 1)

Zeros(n) == [i \in 1..n |-> 0]

\* Buffer.alloc(k) then write of a non-negative number, little-endian
RECURSIVE IntToBytes(_, _)
IntToBytes(n, k) ==
  IF k = 0 THEN <<>> ELSE <<n % 256>> \o IntToBytes(n \div 256, k - 1)

\* Buffer.readUIntLE(0, Len(b)) for values that fit TLC's integers
RECURSIVE BytesToInt(_)
BytesToInt(b) ==
  IF b = <<>> THEN 0 ELSE b[1] + 256 * BytesToInt(Tail(b))

\* bit i (1 = least significant) of a little-endian byte sequence
BitAt(bytes, i) == (bytes[((i - 1) \div 8) + 1] \div Pow2((i - 1) % 8)) % 2

BytesToBits(bytes) == [i \in 1..(8 * Len(bytes)) |-> BitAt(bytes, i)]

RECURSIVE BitsToInt(_)
BitsToInt(bits) ==
  IF bits = <<>> THEN 0 ELSE bits[1] + 2 * BitsToInt(Tail(bits))

BitsToBytes(bits) ==
  [k \in 1..(Len(bits) \div 8) |-> BitsToInt(SubSeq(bits, 8 * k - 7, 8 * k))]

RECURSIVE IntToBits(_, _)
IntToBits(n, w) ==
  IF w = 0 THEN <<>> ELSE <<n % 2>> \o IntToBits(n \div 2, w - 1)

IsZero(bytes) == \A i \in 1..Len(bytes) : bytes[i] = 0

\* value <= 2^(8k) - 1 for a little-endian byte sequence
FitsBytes(v, k) == \A i \in (k + 1)..Len(v) : v[i] = 0

\* a - b on little-endian byte sequences of equal length, a >= b
RECURSIVE SubBorrow(_, _, _, _)
SubBorrow(a, b, i, borrow) ==
  IF i > Len(a) THEN <<>>
  ELSE LET d == a[i] - b[i] - borrow
       IN  <<(d + 256) % 256>> \o SubBorrow(a, b, i + 1, IF d < 0 THEN 1 ELSE 0)

SubBytes(a, b) == SubBorrow(a, b, 1, 0)

\* a + n (n small) on a little-endian byte sequence, width kept
RECURSIVE AddCarry(_, _, _)
AddCarry(a, i, carry) ==
  IF i > Len(a) THEN <<>>
  ELSE LET s == a[i] + carry
       IN  <<s % 256>> \o AddCarry(a, i + 1, s \div 256)

AddSmall(a, n) == AddCarry(a, 1, n)

\* a * m (m small) on a little-endian byte sequence, width kept
RECURSIVE MulCarry(_, _, _, _)
MulCarry(a, m, i, carry) ==
  IF i > Len(a) THEN <<>>
  ELSE LET t == a[i] * m + carry
       IN  <<t % 256>> \o MulCarry(a, m, i + 1, t \div 256)

MulSmall(a, m) == MulCarry(a, m, 1, 0)

\* 1n << n as k bytes
Pow2Bytes(n, k) == [i \in 1..k |-> IF i = (n \div 8) + 1 THEN Pow2(n % 8) ELSE 0]

\* a <= b on little-endian byte sequences of equal length
RECURSIVE LeqFrom(_, _, _)
LeqFrom(a, b, i) ==
  IF i = 0 THEN TRUE
  ELSE IF a[i] # b[i] THEN a[i] < b[i]
  ELSE LeqFrom(a, b, i - 1)

LeqBytes(a, b) == LeqFrom(a, b, Len(a))

\* bitwise OR of two small non-negative integers
RECURSIVE BitOr(_, _)
BitOr(a, b) ==
  IF a = 0 THEN b
  ELSE IF b = 0 THEN a
  ELSE (IF a % 2 = 1 \/ b % 2 = 1 THEN 1 ELSE 0) + 2 * BitOr(a \div 2, b \div 2)

\* (x >> shift) & (2^width - 1) of a little-endian byte sequence
BitField(bytes, shift, width) ==
  BitsToInt([i \in 1..width |->
               IF shift + i <= 8 * Len(bytes) THEN BitAt(bytes, shift + i) ELSE 0])

(***************************************************************************)
(* Strings                                                                 *)
(***************************************************************************)
AsciiChars ==
  << " ", "!", "quote", "#", "$", "%", "&", "'", "(", ")", "*", "+", ",", "-", ".", "/",
     "0", "1", "2", "3", "4", "5", "6", "7", "8", "9", ":", ";", "<", "=", ">", "?",
     "@", "A", "B", "C", "D", "E", "F", "G", "H", "I", "J", "K", "L", "M", "N", "O",
     "P", "Q", "R", "S", "T", "U", "V", "W", "X", "Y", "Z", "[", "backslash", "]", "^", "_",
     "backtick", "a", "b", "c", "d", "e", "f", "g", "h", "i", "j", "k", "l", "m", "n", "o",
     "p", "q", "r", "s", "t", "u", "v", "w", "x", "y", "z", "{", "|", "}", "~" >>

CharCodes ==
  [c \in {AsciiChars[i] : i \in 1..Len(AsciiChars)} |->
     31 + (CHOOSE i \in 1..Len(AsciiChars) : AsciiChars[i] = c)]

CharCode(c) == CharCodes[c]

\* Buffer.from(s, utf-8) for ASCII text
Utf8(s) == [i \in 1..Len(s) |-> CharCode(s[i])]

Digits == <<"0", "1", "2", "3", "4", "5", "6", "7", "8", "9">>

\* template-literal formatting of a non-negative integer
RECURSIVE Decimal(_)
Decimal(n) ==
  IF n < 10 THEN <<Digits[n + 1]>> ELSE Decimal(n \div 10) \o <<Digits[(n % 10) + 1]>>

startsWith(s, p) == Len(s) >= Len(p) /\ SubSeq(s, 1, Len(p)) = p

endsWith(s, p) == Len(s) >= Len(p) /\ SubSeq(s, Len(s) - Len(p) + 1, Len(s)) = p

(***************************************************************************)
(* JavaScript numbers: IEEE-754 binary64, kept as their 8 bytes            *)
(* (little-endian, the layout readDoubleLE / writeDoubleLE use)            *)
(***************************************************************************)
RECURSIVE TopBit(_)
TopBit(a) == IF a <= 1 THEN 0 ELSE 1 + TopBit(a \div 2)

F64Sign(b) == b[8] \div 128

F64Exp(b) == (b[8] % 128) * 16 + (b[7] \div 16)

F64MantZero(b) == (\A i \in 1..6 : b[i] = 0) /\ b[7] % 16 = 0

\* bit k (0 = least significant) of the 53-bit significand 1.mantissa
F64SigBit(b, k) ==
  IF k = 52 THEN (IF F64Exp(b) = 0 THEN 0 ELSE 1)
  ELSE IF k >= 0 /\ k < 52 THEN BitAt(b, k + 1)
  ELSE 0

F64IsNaN(b) == F64Exp(b) = 2047 /\ ~F64MantZero(b)

F64IsInf(b) == F64Exp(b) = 2047 /\ F64MantZero(b)

F64IsFinite(b) == F64Exp(b) # 2047

MakeF64(sign, exp, mantBits) == BitsToBytes(mantBits \o IntToBits(exp, 11) \o <<sign>>)

\* the number with integer value n, |n| < 2^31
IntToF64(n) ==
  IF n = 0 THEN Zeros(8)
  ELSE LET a == IF n < 0 THEN -n ELSE n
           p == TopBit(a)
           aBits == IntToBits(a, 31)
       IN  MakeF64(IF n < 0 THEN 1 ELSE 0, 1023 + p,
                   [j \in 1..52 |-> IF j - 1 - (52 - p) >= 0
                                    THEN aBits[j - (52 - p)] ELSE 0])

Num(n) == [t |-> "number", b |-> IntToF64(n)]

\* floor(|x|) of a finite number below 2^31 and whether |x| has a fraction
F64Unbiased(b) == F64Exp(b) - 1023

F64Huge(b) == F64Unbiased(b) > 30

F64IntPart(b) ==
  LET E == F64Unbiased(b)
  IN  IF F64Exp(b) = 0 \/ E < 0 THEN 0
      ELSE BitsToInt([j \in 1..(E + 1) |-> F64SigBit(b, 52 - E + j - 1)])

F64HasFrac(b) ==
  LET E == F64Unbiased(b)
  IN  IF F64Exp(b) = 0 THEN ~F64MantZero(b)
      ELSE IF E < 0 THEN TRUE
      ELSE \E k \in 0..51 : k < 52 - E /\ F64SigBit(b, k) = 1

\* x < c and x > c for a number x and an integer c, as JavaScript compares
F64Lt(b, c) ==
  /\ ~F64IsNaN(b)
  /\ IF F64IsInf(b) \/ F64Huge(b) THEN F64Sign(b) = 1
     ELSE IF F64Sign(b) = 0 THEN F64IntPart(b) < c
     ELSE F64IntPart(b) > -c \/ (F64IntPart(b) = -c /\ F64HasFrac(b))

F64Gt(b, c) ==
  /\ ~F64IsNaN(b)
  /\ IF F64IsInf(b) \/ F64Huge(b) THEN F64Sign(b) = 0
     ELSE IF F64Sign(b) = 0
          THEN F64IntPart(b) > c \/ (F64IntPart(b) = c /\ F64HasFrac(b))
     ELSE F64IntPart(b) < -c

\* Buffer.readFloatLE: the binary32 value widened to a number
F32ToF64(f) ==
  LET s == f[4] \div 128
      e == (f[4] % 128) * 2 + (f[3] \div 128)
      m == (f[3] % 128) * 65536 + f[2] * 256 + f[1]
      p == TopBit(m)
  IN  IF e = 255 THEN MakeF64(s, 2047, Zeros(29) \o IntToBits(m, 23))
      ELSE IF e = 0 /\ m = 0 THEN MakeF64(s, 0, Zeros(52))
      ELSE IF e = 0
           THEN MakeF64(s, 1023 + p - 149, Zeros(52 - p) \o IntToBits(m - Pow2(p), p))
      ELSE MakeF64(s, e - 127 + 1023, Zeros(29) \o IntToBits(m, 23))

\* Buffer.writeFloatLE: a number rounded to binary32 (nearest, ties to even)
F64ToF32(b) ==
  LET s == F64Sign(b)
      E == F64Unbiased(b)
      sh == IF E >= -126 THEN 29 ELSE -E - 97
      kept == BitsToInt([j \in 1..24 |->
                IF sh + j - 1 <= 52 /\ (E < -126 \/ j <= 23)
                THEN F64SigBit(b, sh + j - 1) ELSE 0])
      round == F64SigBit(b, sh - 1)
      sticky == \E k \in 0..52 : k < sh - 1 /\ F64SigBit(b, k) = 1
      up == IF round = 1 /\ (sticky \/ kept % 2 = 1) THEN 1 ELSE 0
      mag == IF F64IsNaN(b)
               THEN 255 * 8388608 + 4194304
                    + BitsToInt([j \in 1..22 |-> F64SigBit(b, 29 + j - 1)])
             ELSE IF F64IsInf(b) \/ E > 127 THEN 255 * 8388608
             ELSE IF F64Exp(b) = 0 \/ sh > 53 THEN 0
             ELSE IF E >= -126 THEN (E + 127) * 8388608 + kept + up
             ELSE kept + up
      bytes == IntToBytes(mag, 4)
  IN  [bytes EXCEPT ![4] = @ + 128 * s]

\* Math.round then BigInt: t = "throw" (RangeError), t = "wide" (a bigint of
\* more than 64 bits) or a bigint
NumberToBigInt(b) ==
  LET E == F64Unbiased(b)
      mag == BitsToBytes([j \in 1..64 |-> F64SigBit(b, j - 1 + 52 - E)])
      half == F64SigBit(b, 51 - E)
      rest == \E k \in 0..51 : k < 51 - E /\ F64SigBit(b, k) = 1
      inc == IF half = 1 /\ (F64Sign(b) = 0 \/ rest) THEN 1 ELSE 0
      r == AddSmall(mag, inc)
  IN  IF ~F64IsFinite(b) THEN [t |-> "throw"]
      ELSE IF F64Exp(b) = 0 \/ E < -1 THEN [t |-> "bigint", neg |-> FALSE, mag |-> Zeros(8)]
      ELSE IF E > 63 THEN [t |-> "wide"]
      ELSE [t |-> "bigint", neg |-> F64Sign(b) = 1 /\ ~IsZero(r), mag |-> r]

\* Number(bigint): nearest number, ties to even
BigIntToF64(v) ==
  LET bits == BytesToBits(v.mag)
      p == CHOOSE k \in 0..63 : bits[k + 1] = 1 /\ \A j \in (k + 1)..63 : bits[j + 1] = 0
      d == p - 52
      bit(k) == IF k >= 0 /\ k <= 63 THEN bits[k + 1] ELSE 0
      base == MakeF64(IF v.neg THEN 1 ELSE 0, 1023 + p, [j \in 1..52 |-> bit(d + j - 1)])
      round == bit(d - 1)
      sticky == \E k \in 0..63 : k < d - 1 /\ bits[k + 1] = 1
      up == IF round = 1 /\ (sticky \/ bit(d) = 1) THEN 1 ELSE 0
  IN  IF IsZero(v.mag) THEN Zeros(8) ELSE AddSmall(base, up)

(***************************************************************************)
(* Target writer (revlogParser.ts, helpers of parseREVLOG)                 *)
(***************************************************************************)
\* BigInt(value) laid out by writeBigUInt64LE
U64(n) == IntToBytes(n, 8)

writeVariableInt(value, length) == SubSeq(value, 1, length)

\* requiredBytes with < in place of <= on lines 71-73
requiredBytesStrict(value) ==
  IF FitsBytes(AddSmall(value, 1), 1) THEN 1
  ELSE IF FitsBytes(AddSmall(value, 1), 2) THEN 2
  ELSE IF FitsBytes(AddSmall(value, 1), 3) THEN 3
  ELSE 4

requiredBytes(value) ==
  IF FitsBytes(value, 1) THEN 1
  ELSE IF FitsBytes(value, 2) THEN 2
  ELSE IF FitsBytes(value, 3) THEN 3
  ELSE 4

requiredTimestampBytes(value) ==
  IF FitsBytes(value, 1) THEN 1
  ELSE IF FitsBytes(value, 2) THEN 2
  ELSE IF FitsBytes(value, 3) THEN 3
  ELSE IF FitsBytes(value, 4) THEN 4
  ELSE IF FitsBytes(value, 5) THEN 5
  ELSE IF FitsBytes(value, 6) THEN 6
  ELSE IF FitsBytes(value, 7) THEN 7
  ELSE 8

\* The writer's state: the output so far, the stream registry, the next
\* identifier, and (history) the calls that appended a record.
\*   w.outputChunks    Buffer.concat(outputChunks)
\*   w.RECORDS         name -> [id, type]
\*   w.NEXT_RECORD_ID
\*   w.emitted         <<[op, name, id, type, at]>>, at = offset of the record
NewWriter ==
  [outputChunks |-> <<>>, RECORDS |-> <<>>, NEXT_RECORD_ID |-> 1, emitted |-> <<>>]

controlPayload(entryId, entryName, dataType, metadata) ==
  <<0>> \o IntToBytes(entryId, 4)
        \o IntToBytes(Len(entryName), 4) \o Utf8(entryName)
        \o IntToBytes(Len(dataType), 4) \o Utf8(dataType)
        \o IntToBytes(Len(metadata), 4) \o Utf8(metadata)

\* lines 121-132: the chunks writeControlRecord pushes
controlFrame(payload) ==
  LET size == U64(Len(payload))
      bitfield == BitOr(BitOr(requiredBytes(U64(0)) - 1,
                              (requiredBytes(size) - 1) * 4),
                        (requiredTimestampBytes(U64(0)) - 1) * 16)
  IN  <<bitfield>>
        \o writeVariableInt(U64(0), requiredBytes(U64(0)))
        \o writeVariableInt(size, requiredBytes(size))
        \o writeVariableInt(U64(0), requiredTimestampBytes(U64(0)))
        \o payload

\* writeControlRecord without line 133: the stream is never registered
writeControlRecordUnregistered(w, entryId, entryName, dataType, metadata) ==
  [w EXCEPT
        !.outputChunks =
           @ \o controlFrame(controlPayload(entryId, entryName, dataType, metadata)),
        !.emitted = Append(@, [op |-> "control", name |-> entryName, id |-> entryId,
                               type |-> dataType, at |-> Len(w.outputChunks)])]

writeControlRecord(w, entryId, entryName, dataType, metadata) ==
  [w EXCEPT
        !.outputChunks =
           @ \o controlFrame(controlPayload(entryId, entryName, dataType, metadata)),
        !.RECORDS = (entryName :> [id |-> entryId, type |-> dataType]) @@ @,
        !.emitted = Append(@, [op |-> "control", name |-> entryName, id |-> entryId,
                               type |-> dataType, at |-> Len(w.outputChunks)])]

\* JavaScript truthiness of a value
Truthy(v) ==
  IF v.t = "bigint" THEN ~IsZero(v.mag)
  ELSE IF v.t = "number"
       THEN ~F64IsNaN(v.b) /\ ~(F64Exp(v.b) = 0 /\ F64MantZero(v.b))
  ELSE v.s # <<>>

\* an encoding that never throws: the low 64 bits of a bigint, whatever it is
Int64BytesWrapping(v) ==
  IF v.t = "bigint"
  THEN [throw |-> FALSE,
        bytes |-> IF v.neg THEN SubSeq(SubBytes(Zeros(8) \o <<1>>, v.mag \o <<0>>), 1, 8)
                  ELSE v.mag]
  ELSE [throw |-> TRUE, bytes |-> <<>>]

\* Buffer.writeBigInt64LE(BigInt(...)): throws, or the 8 bytes, two's complement.
\* BigInt of a string that is not an integer literal throws (every string
\* written here is a dotted version).
Int64Bytes(v) ==
  LET big == IF v.t = "number" THEN NumberToBigInt(v.b)
             ELSE IF v.t = "bigint" THEN v
             ELSE [t |-> "throw"]
      limit == Pow2Bytes(63, 8)
      thrown == [throw |-> TRUE, bytes |-> <<>>]
  IN  IF big.t \in {"throw", "wide"} THEN thrown
      ELSE IF ~big.neg
           THEN (IF LeqBytes(limit, big.mag) THEN thrown
                 ELSE [throw |-> FALSE, bytes |-> big.mag])
      ELSE IF ~LeqBytes(big.mag, limit) THEN thrown
      ELSE [throw |-> FALSE,
            bytes |-> SubSeq(SubBytes(Zeros(8) \o <<1>>, big.mag \o <<0>>), 1, 8)]

NaNBytes == <<0, 0, 0, 0, 0, 0, 248, 127>>

\* Number(entryValue)
ToNumber(v) ==
  IF v.t = "number" THEN v.b
  ELSE IF v.t = "bigint" THEN BigIntToF64(v)
  ELSE NaNBytes

\* a / m and a % m (m small) on a little-endian byte sequence
RECURSIVE DivFrom(_, _, _, _)
DivFrom(a, m, i, rem) ==
  IF i = 0 THEN <<>>
  ELSE LET cur == rem * 256 + a[i]
       IN  DivFrom(a, m, i - 1, cur % m) \o <<cur \div m>>

RECURSIVE ModFrom(_, _, _, _)
ModFrom(a, m, i, rem) ==
  IF i = 0 THEN rem ELSE ModFrom(a, m, i - 1, (rem * 256 + a[i]) % m)

RECURSIVE BigDecimal(_)
BigDecimal(mag) ==
  IF FitsBytes(mag, 1) /\ mag[1] < 10 THEN <<Digits[mag[1] + 1]>>
  ELSE BigDecimal(DivFrom(mag, 10, Len(mag), 0))
         \o <<Digits[ModFrom(mag, 10, Len(mag), 0) + 1]>>

\* String(entryValue).  A number is formatted when it is NaN, infinite or an
\* integer below 2^31; the shortest-decimal expansion of other numbers is not
\* modelled (no stream of string kind receives one).
StringOf(v) ==
  IF v.t = "string" THEN v.s
  ELSE IF v.t = "bigint"
       THEN (IF v.neg THEN <<"-">> ELSE <<>>) \o BigDecimal(v.mag)
  ELSE IF F64IsNaN(v.b) THEN <<"N", "a", "N">>
  ELSE IF F64IsInf(v.b)
       THEN (IF F64Sign(v.b) = 1 THEN <<"-">> ELSE <<>>)
              \o <<"I", "n", "f", "i", "n", "i", "t", "y">>
  ELSE CHOOSE s \in {(IF F64Sign(v.b) = 1 /\ F64IntPart(v.b) # 0 THEN <<"-">> ELSE <<>>)
                       \o Decimal(F64IntPart(v.b))} :
         ~F64Huge(v.b) /\ ~F64HasFrac(v.b)

TypeBoolean == <<"b", "o", "o", "l", "e", "a", "n">>
TypeInt64 == <<"i", "n", "t", "6", "4">>
TypeFloat == <<"f", "l", "o", "a", "t">>
TypeDouble == <<"d", "o", "u", "b", "l", "e">>
TypeString == <<"s", "t", "r", "i", "n", "g">>

\* the switch of writeRecord: the payload, or known = FALSE where the default
\* case returns without writing
recordPayload(type, entryValue) ==
  LET payload(bytes) == [known |-> TRUE, bytes |-> bytes]
  IN  IF type = TypeBoolean THEN payload(<<IF Truthy(entryValue) THEN 1 ELSE 0>>)
      ELSE IF type = TypeInt64
           THEN (IF Int64Bytes(entryValue).throw THEN payload(Zeros(8))
                 ELSE payload(Int64Bytes(entryValue).bytes))
      ELSE IF type = TypeFloat THEN payload(F64ToF32(ToNumber(entryValue)))
      ELSE IF type = TypeDouble THEN payload(ToNumber(entryValue))
      ELSE IF type = TypeString THEN payload(Utf8(StringOf(entryValue)))
      ELSE [known |-> FALSE, bytes |-> <<>>]

\* the framing of one data record: id and timestampUs as 64-bit values
recordFrame(id, payload, timestampUs) ==
  LET payloadSize == U64(Len(payload))
      bitfield == BitOr(BitOr(requiredBytes(id) - 1,
                              (requiredBytes(payloadSize) - 1) * 4),
                        (requiredTimestampBytes(timestampUs) - 1) * 16)
  IN  <<bitfield>>
        \o writeVariableInt(id, requiredBytes(id))
        \o writeVariableInt(payloadSize, requiredBytes(payloadSize))
        \o writeVariableInt(timestampUs, requiredTimestampBytes(timestampUs))
        \o payload

\* BigInt(timestampMs) * 1000n, timestampMs a 32-bit unsigned value (4 bytes)
timestampUsOf(timestampMs) == MulSmall(timestampMs \o Zeros(4), 1000)

writeRecord(w, entryName, entryValue, timestampMs) ==
  IF entryName \notin DOMAIN w.RECORDS THEN w
  ELSE LET recordInfo == w.RECORDS[entryName]
           payload == recordPayload(recordInfo.type, entryValue)
       IN  IF ~payload.known THEN w
           ELSE [w EXCEPT
                  !.outputChunks =
                     @ \o recordFrame(U64(recordInfo.id), payload.bytes,
                                      timestampUsOf(timestampMs)),
                  !.emitted = Append(@, [op |-> "data", name |-> entryName,
                                         id |-> recordInfo.id, type |-> recordInfo.type,
                                         at |-> Len(w.outputChunks)])]

(***************************************************************************)
(* Signal catalogue (revDBC: Dbc) and CAN decoder (revDBC: CanDecoder)     *)
(***************************************************************************)
\* A JavaScript Map as its entries in insertion order: <<[key, value]>>
MapHas(m, k) == \E i \in 1..Len(m) : m[i].key = k

MapGet(m, k) == m[CHOOSE i \in 1..Len(m) : m[i].key = k].value

MapSet(m, k, v) ==
  IF MapHas(m, k)
  THEN [i \in 1..Len(m) |-> IF m[i].key = k THEN [key |-> k, value |-> v] ELSE m[i]]
  ELSE Append(m, [key |-> k, value |-> v])

MapValues(m) == [i \in 1..Len(m) |-> m[i].value]

\* Dbc while and after load.  Message objects live in objs and the two maps hold
\* references (indexes) to them, as the two Maps of the class share one object.
\* A line is a record of what the regular expression of its shape captured:
\*   [kind |-> "BO", id, name, dlc, sender]
\*   [kind |-> "SG", name, startBit, length, byteOrder, sign, factor, offset,
\*    min, max, unit]
\*   [kind |-> "VALTYPE", id, name, code]      [kind |-> "CM", id, name, text]
\*   [kind |-> "other"]
NewDbc == [objs |-> <<>>, messages |-> <<>>, messagesById |-> <<>>, currentMessage |-> 0]

SignalOfLine(line) ==
  [name |-> line.name, startBit |-> line.startBit, length |-> line.length,
   isLittleEndian |-> (line.byteOrder = 1), isSigned |-> (line.sign = "-"),
   factor |-> line.factor, offset |-> line.offset, min |-> line.min, max |-> line.max,
   unit |-> line.unit, description |-> <<>>, dataType |-> "int"]

\* LookupSignal that searches the message being declared, whatever id the
\* line names
LookupSignalCurrent(dbc, id, name) ==
  IF dbc.currentMessage = 0 THEN <<>>
  ELSE IF MapHas(dbc.objs[dbc.currentMessage].signals, name)
       THEN <<dbc.currentMessage>> ELSE <<>>

\* the signal of message id named name, or none: <<>> or <<[obj, signal]>>
LookupSignal(dbc, id, name) ==
  IF ~MapHas(dbc.messagesById, id) THEN <<>>
  ELSE LET obj == MapGet(dbc.messagesById, id)
       IN  IF MapHas(dbc.objs[obj].signals, name) THEN <<obj>> ELSE <<>>

UpdateSignal(dbc, obj, name, sig) ==
  [dbc EXCEPT !.objs[obj].signals = MapSet(@, name, sig)]

loadLine(dbc, line) ==
  IF line.kind = "BO"
  THEN LET obj == Len(dbc.objs) + 1
       IN  [objs |-> Append(dbc.objs, [id |-> line.id, name |-> line.name, dlc |-> line.dlc,
                                       sender |-> line.sender, signals |-> <<>>]),
            messages |-> MapSet(dbc.messages, line.name, obj),
            messagesById |-> MapSet(dbc.messagesById, line.id, obj),
            currentMessage |-> obj]
  ELSE IF line.kind = "SG" /\ dbc.currentMessage # 0
  THEN UpdateSignal(dbc, dbc.currentMessage, line.name, SignalOfLine(line))
  ELSE IF line.kind = "VALTYPE"
  THEN LET hit == LookupSignal(dbc, line.id, line.name)
       IN  IF hit = <<>> THEN dbc
           ELSE LET sig == MapGet(dbc.objs[hit[1]].signals, line.name)
                IN  UpdateSignal(dbc, hit[1], line.name,
                      [sig EXCEPT !.dataType = IF line.code = 1 THEN "float"
                                               ELSE IF line.code = 2 THEN "double"
                                               ELSE @])
  ELSE IF line.kind = "CM"
  THEN LET hit == LookupSignal(dbc, line.id, line.name)
       IN  IF hit = <<>> THEN dbc
           ELSE LET sig == MapGet(dbc.objs[hit[1]].signals, line.name)
                IN  UpdateSignal(dbc, hit[1], line.name,
                                 [sig EXCEPT !.description = <<line.text>>])
  ELSE dbc

RECURSIVE loadFrom(_, _, _)
loadFrom(dbc, lines, i) ==
  IF i > Len(lines) THEN dbc ELSE loadFrom(loadLine(dbc, lines[i]), lines, i + 1)

\* new Dbc().load(content)
load(lines) == loadFrom(NewDbc, lines, 1)

\* rawBigOf with the sign extension of lines 156-161 left out
rawBigOfUnsigned(signal, bufferAsBigInt) ==
  [t |-> "bigint", neg |-> FALSE,
   mag |-> BitsToBytes([i \in 1..64 |->
             IF i <= signal.length /\ signal.startBit + i <= 64
             THEN BitAt(bufferAsBigInt, signal.startBit + i) ELSE 0])]

\* lines 152-162: the bit field of a little-endian integer signal, sign-extended
rawBigOf(signal, bufferAsBigInt) ==
  LET shift == signal.startBit
      masked == BitsToBytes([i \in 1..64 |->
                  IF i <= signal.length /\ shift + i <= 64
                  THEN BitAt(bufferAsBigInt, shift + i) ELSE 0])
      negative == /\ signal.isSigned
                  /\ signal.length >= 1 /\ signal.length <= 64
                  /\ BitAt(masked, signal.length) = 1
  IN  IF negative
      THEN [t |-> "bigint", neg |-> TRUE,
            mag |-> SubSeq(SubBytes(Pow2Bytes(signal.length, 9), masked \o <<0>>), 1, 8)]
      ELSE [t |-> "bigint", neg |-> FALSE, mag |-> masked]

\* lines 163-167: the physical value of a little-endian integer signal
scaledOf(signal, rawBig) ==
  LET rawInt == IF rawBig.neg THEN -BytesToInt(rawBig.mag) ELSE BytesToInt(rawBig.mag)
  IN  IF signal.factor = 1 /\ signal.offset = 0 THEN rawBig
      ELSE Num(rawInt * signal.factor + signal.offset)

\* lines 176-182: the clamp into [min, max]
clampOf(signal, physicalValue) ==
  LET low == IF F64Lt(physicalValue.b, signal.min) THEN Num(signal.min)
             ELSE physicalValue
      high == IF F64Gt(low.b, signal.max) THEN Num(signal.max) ELSE low
  IN  IF physicalValue.t = "number" /\ (signal.min # 0 \/ signal.max # 0)
      THEN high ELSE physicalValue

\* one signal of CanDecoder.decode (lines 137-184): [throw, value, rawValue]
decodeSignal(signal, data) ==
  LET bufferAsBigInt == SubSeq(data, 1, 8)
      thrown == [throw |-> TRUE, value |-> Num(0), rawValue |-> Num(0)]
      \* float / double
      byteOffset == signal.startBit \div 8
      isDouble == signal.dataType = "double" \/ signal.length = 64
      width == IF isDouble THEN 8 ELSE 4
      read == SubSeq(data, byteOffset + 1, byteOffset + width)
      floatValue == [t |-> "number", b |-> IF isDouble THEN read ELSE F32ToF64(read)]
      \* before the clamp
      physical == IF signal.dataType \in {"float", "double"} THEN floatValue
                  ELSE IF signal.isLittleEndian
                       THEN scaledOf(signal, rawBigOf(signal, bufferAsBigInt))
                  ELSE Num(0)
      raw == IF signal.dataType \in {"float", "double"} THEN floatValue
             ELSE IF signal.isLittleEndian THEN rawBigOf(signal, bufferAsBigInt)
             ELSE Num(0)
  IN  IF signal.dataType \in {"float", "double"} /\ byteOffset + width > Len(data)
      THEN thrown
      ELSE [throw |-> FALSE, value |-> clampOf(signal, physical), rawValue |-> raw]

\* CanDecoder.decode(createFrame(id, data)) with database = dbc:
\* kind "null" (no such message), "throw" (a read past the buffer) or "decoded"
decode(dbc, id, frameData) ==
  IF ~MapHas(dbc.messagesById, id)
  THEN [kind |-> "null", boundSignals |-> <<>>]
  ELSE LET message == dbc.objs[MapGet(dbc.messagesById, id)]
           neededLength == IF message.dlc > 8 THEN message.dlc ELSE 8
           data == IF Len(frameData) < neededLength
                   THEN frameData \o Zeros(neededLength - Len(frameData))
                   ELSE frameData
           signals == MapValues(message.signals)
           each == [i \in 1..Len(signals) |-> decodeSignal(signals[i], data)]
       IN  IF \E i \in 1..Len(signals) : each[i].throw
           THEN [kind |-> "throw", boundSignals |-> <<>>]
           ELSE [kind |-> "decoded",
                 boundSignals |-> [i \in 1..Len(signals) |->
                                     [key |-> signals[i].name,
                                      value |-> [signal |-> signals[i],
                                                 value |-> each[i].value,
                                                 rawValue |-> each[i].rawValue]]]]

(***************************************************************************)
(* The three built-in catalogues.  The definition files (resources/*.dbc)  *)
(* are read at run time; these lines stand for their content and hold one  *)
(* signal of every shape the decoder and the writer distinguish.           *)
(***************************************************************************)
sparkLines ==
  << [kind |-> "other"],
     [kind |-> "BO", id |-> 33921152, name |-> <<"G", "E", "T", "_", "F", "I", "R", "M", "W", "A", "R", "E", "_", "V", "E", "R", "S", "I", "O", "N">>, dlc |-> 8,
      sender |-> <<"V", "e", "c", "t", "o", "r", "_", "_", "X", "X", "X">>],
     [kind |-> "SG", name |-> <<"M", "A", "J", "O", "R">>, startBit |-> 0, length |-> 8,
      byteOrder |-> 1, sign |-> "+", factor |-> 1, offset |-> 0,
      min |-> 0, max |-> 0, unit |-> <<>>],
     [kind |-> "SG", name |-> <<"M", "I", "N", "O", "R">>, startBit |-> 8, length |-> 8,
      byteOrder |-> 1, sign |-> "+", factor |-> 1, offset |-> 0,
      min |-> 0, max |-> 0, unit |-> <<>>],
     [kind |-> "SG", name |-> <<"B", "U", "I", "L", "D">>, startBit |-> 23, length |-> 16,
      byteOrder |-> 0, sign |-> "+", factor |-> 1, offset |-> 0,
      min |-> 0, max |-> 0, unit |-> <<>>],
     [kind |-> "BO", id |-> 33929216, name |-> <<"S", "T", "A", "T", "U", "S", "_", "0">>, dlc |-> 8,
      sender |-> <<"V", "e", "c", "t", "o", "r", "_", "_", "X", "X", "X">>],
     [kind |-> "SG", name |-> <<"A", "P", "P", "L", "I", "E", "D", "_", "O", "U", "T", "P", "U", "T">>, startBit |-> 0, length |-> 16,
      byteOrder |-> 1, sign |-> "-", factor |-> 2, offset |-> 0,
      min |-> -100, max |-> 100, unit |-> <<"%">>],
     [kind |-> "SG", name |-> <<"H", "A", "R", "D", "_", "F", "A", "U", "L", "T">>, startBit |-> 16, length |-> 1,
      byteOrder |-> 1, sign |-> "+", factor |-> 1, offset |-> 0,
      min |-> 0, max |-> 1, unit |-> <<>>],
     [kind |-> "SG", name |-> <<"T", "E", "M", "P", "_", "W", "A", "R", "N", "I", "N", "G">>, startBit |-> 17, length |-> 1,
      byteOrder |-> 1, sign |-> "+", factor |-> 1, offset |-> 0,
      min |-> 0, max |-> 0, unit |-> <<>>],
     [kind |-> "SG", name |-> <<"C", "O", "U", "N", "T">>, startBit |-> 24, length |-> 8,
      byteOrder |-> 1, sign |-> "+", factor |-> 1, offset |-> 0,
      min |-> 0, max |-> 100, unit |-> <<"n">>],
     [kind |-> "BO", id |-> 33929280, name |-> <<"S", "T", "A", "T", "U", "S", "_", "1">>, dlc |-> 8,
      sender |-> <<"V", "e", "c", "t", "o", "r", "_", "_", "X", "X", "X">>],
     [kind |-> "SG", name |-> <<"V", "E", "L", "O", "C", "I", "T", "Y">>, startBit |-> 0, length |-> 32,
      byteOrder |-> 1, sign |-> "-", factor |-> 1, offset |-> 0,
      min |-> 0, max |-> 0, unit |-> <<"R", "P", "M">>],
     [kind |-> "SG", name |-> <<"P", "O", "S", "I", "T", "I", "O", "N">>, startBit |-> 32, length |-> 32,
      byteOrder |-> 1, sign |-> "-", factor |-> 1, offset |-> 0,
      min |-> -10, max |-> 10, unit |-> <<"r", "o", "t">>],
     [kind |-> "BO", id |-> 33882304, name |-> <<"S", "E", "T", "_", "S", "E", "T", "P", "O", "I", "N", "T">>, dlc |-> 8,
      sender |-> <<"V", "e", "c", "t", "o", "r", "_", "_", "X", "X", "X">>],
     [kind |-> "SG", name |-> <<"S", "E", "T", "P", "O", "I", "N", "T">>, startBit |-> 0, length |-> 32,
      byteOrder |-> 1, sign |-> "-", factor |-> 1, offset |-> 0,
      min |-> 0, max |-> 0, unit |-> <<>>],
     [kind |-> "VALTYPE", id |-> 33929280, name |-> <<"V", "E", "L", "O", "C", "I", "T", "Y">>, code |-> 1],
     [kind |-> "VALTYPE", id |-> 33929280, name |-> <<"P", "O", "S", "I", "T", "I", "O", "N">>, code |-> 1],
     [kind |-> "CM", id |-> 33929280, name |-> <<"P", "O", "S", "I", "T", "I", "O", "N">>, text |-> <<"t", "u", "r", "n", "s">>] >>

servohubLines ==
  << [kind |-> "BO", id |-> 201693184, name |-> <<"G", "E", "T", "_", "V", "E", "R", "S", "I", "O", "N">>, dlc |-> 8,
      sender |-> <<"V", "e", "c", "t", "o", "r", "_", "_", "X", "X", "X">>],
     [kind |-> "SG", name |-> <<"M", "A", "J", "O", "R">>, startBit |-> 0, length |-> 8,
      byteOrder |-> 1, sign |-> "+", factor |-> 1, offset |-> 0,
      min |-> 0, max |-> 0, unit |-> <<>>],
     [kind |-> "BO", id |-> 201701376, name |-> <<"S", "T", "A", "T", "U", "S", "_", "0">>, dlc |-> 8,
      sender |-> <<"V", "e", "c", "t", "o", "r", "_", "_", "X", "X", "X">>],
     [kind |-> "SG", name |-> <<"R", "A", "W", "6", "4">>, startBit |-> 0, length |-> 64,
      byteOrder |-> 1, sign |-> "+", factor |-> 1, offset |-> 0,
      min |-> 0, max |-> 0, unit |-> <<>>],
     [kind |-> "SG", name |-> <<"Z", "E", "R", "O", "_", "S", "C", "A", "L", "E">>, startBit |-> 0, length |-> 8,
      byteOrder |-> 1, sign |-> "+", factor |-> 0, offset |-> 7,
      min |-> 0, max |-> 0, unit |-> <<>>],
     [kind |-> "SG", name |-> <<"B", "E", "_", "W", "O", "R", "D">>, startBit |-> 7, length |-> 16,
      byteOrder |-> 0, sign |-> "+", factor |-> 1, offset |-> 0,
      min |-> 0, max |-> 0, unit |-> <<>>],
     [kind |-> "BO", id |-> 201701440, name |-> <<"S", "T", "A", "T", "U", "S", "_", "1">>, dlc |-> 8,
      sender |-> <<"V", "e", "c", "t", "o", "r", "_", "_", "X", "X", "X">>],
     [kind |-> "SG", name |-> <<"B", "A", "D", "_", "D", "O", "U", "B", "L", "E">>, startBit |-> 32, length |-> 32,
      byteOrder |-> 1, sign |-> "-", factor |-> 1, offset |-> 0,
      min |-> 0, max |-> 0, unit |-> <<>>],
     [kind |-> "VALTYPE", id |-> 201701440, name |-> <<"B", "A", "D", "_", "D", "O", "U", "B", "L", "E">>, code |-> 2] >>

encoderLines ==
  << [kind |-> "BO", id |-> 117807104, name |-> <<"G", "E", "T", "_", "V", "E", "R", "S", "I", "O", "N", "I", "N", "G", "_", "R", "E", "S", "P">>, dlc |-> 8,
      sender |-> <<"V", "e", "c", "t", "o", "r", "_", "_", "X", "X", "X">>],
     [kind |-> "SG", name |-> <<"S", "W", "_", "M", "A", "J", "O", "R">>, startBit |-> 40, length |-> 8,
      byteOrder |-> 1, sign |-> "+", factor |-> 1, offset |-> 0,
      min |-> 0, max |-> 0, unit |-> <<>>],
     [kind |-> "BO", id |-> 117815296, name |-> <<"P", "E", "R", "I", "O", "D", "I", "C", "_", "F", "R", "A", "M", "E", "_", "0">>, dlc |-> 8,
      sender |-> <<"V", "e", "c", "t", "o", "r", "_", "_", "X", "X", "X">>],
     [kind |-> "SG", name |-> <<"A", "N", "G", "L", "E">>, startBit |-> 0, length |-> 64,
      byteOrder |-> 1, sign |-> "-", factor |-> 1, offset |-> 0,
      min |-> 0, max |-> 360, unit |-> <<"d", "e", "g">>],
     [kind |-> "SG", name |-> <<"S", "I", "G", "N", "E", "D", "1", "2">>, startBit |-> 4, length |-> 12,
      byteOrder |-> 1, sign |-> "-", factor |-> 1, offset |-> 0,
      min |-> 0, max |-> 0, unit |-> <<>>],
     [kind |-> "VALTYPE", id |-> 117815296, name |-> <<"A", "N", "G", "L", "E">>, code |-> 2],
     [kind |-> "BO", id |-> 117815360, name |-> <<"P", "E", "R", "I", "O", "D", "I", "C", "_", "F", "R", "A", "M", "E", "_", "1">>, dlc |-> 12,
      sender |-> <<"V", "e", "c", "t", "o", "r", "_", "_", "X", "X", "X">>],
     [kind |-> "SG", name |-> <<"E", "X", "T", "R", "A">>, startBit |-> 64, length |-> 32,
      byteOrder |-> 1, sign |-> "-", factor |-> 1, offset |-> 0,
      min |-> 0, max |-> 0, unit |-> <<>>],
     [kind |-> "SG", name |-> <<"H", "A", "L", "F">>, startBit |-> 0, length |-> 8,
      byteOrder |-> 1, sign |-> "+", factor |-> 3, offset |-> 1,
      min |-> 0, max |-> 0, unit |-> <<>>],
     [kind |-> "VALTYPE", id |-> 117815360, name |-> <<"E", "X", "T", "R", "A">>, code |-> 1] >>

sparkDbc == load(sparkLines)
servohubDbc == load(servohubLines)
encoderDbc == load(encoderLines)

(***************************************************************************)
(* Device registry (parseREVLOG: createDeviceMap, devices)                 *)
(***************************************************************************)
SPARK_PREFIX == <<"R", "E", "V", "/", "S", "p", "a", "r", "k", "-">>
SERVO_HUB_PREFIX == <<"R", "E", "V", "/", "S", "e", "r", "v", "o", "H", "u", "b", "-">>
ENCODER_PREFIX == <<"R", "E", "V", "/", "E", "n", "c", "o", "d", "e", "r", "-">>
MOTOR_CONTROLLER_ID == 2
SERVO_CONTROLLER_ID == 12
ENCODER_ID == 7

\* new Map([...dbc.messages.values()].filter(startsWith).map(m => [apiIndex, m]))
RECURSIVE periodicFramesFrom(_, _, _, _)
periodicFramesFrom(dbc, periodicPrefix, i, map) ==
  IF i > Len(dbc.messages) THEN map
  ELSE LET m == dbc.objs[dbc.messages[i].value]
       IN  periodicFramesFrom(dbc, periodicPrefix, i + 1,
             IF startsWith(m.name, periodicPrefix)
             THEN MapSet(map, (m.id \div 64) % 16, m)
             ELSE map)

\* firmwareFrameId is <<>> (undefined) or <<id>>
createDeviceMap(dbc, prefix, fwName, periodicPrefix, customVersionParser) ==
  [dbc |-> dbc,
   prefix |-> prefix,
   firmwareFrameId |-> IF MapHas(dbc.messages, fwName)
                       THEN <<dbc.objs[MapGet(dbc.messages, fwName)].id>>
                       ELSE <<>>,
   firmwareMessageName |-> fwName,
   periodicFrames |-> periodicFramesFrom(dbc, periodicPrefix, 1, <<>>),
   customVersionParser |-> customVersionParser]

Dotted(a, b, c) == Decimal(a) \o <<".">> \o Decimal(b) \o <<".">> \o Decimal(c)

\* parseFirmwareVersion with the build number read low byte first
parseFirmwareVersionLowFirst(device, data) ==
  IF Len(data) = 0 THEN Dotted(0, 0, 0)
  ELSE IF device.customVersionParser
       THEN (IF Len(data) < 6 THEN Dotted(0, 0, 0)
             ELSE Dotted(data[6], data[5], data[4]))
  ELSE Dotted(IF Len(data) > 0 THEN data[1] ELSE 0,
              IF Len(data) > 1 THEN data[2] ELSE 0,
              IF Len(data) > 3 THEN data[4] * 256 + data[3] ELSE 0)

\* device.parseFirmwareVersion(decoded.boundSignals, data)
parseFirmwareVersion(device, data) ==
  IF Len(data) = 0 THEN Dotted(0, 0, 0)
  ELSE IF device.customVersionParser
       THEN (IF Len(data) < 6 THEN Dotted(0, 0, 0)
             ELSE Dotted(data[6], data[5], data[4]))
  ELSE Dotted(IF Len(data) > 0 THEN data[1] ELSE 0,
              IF Len(data) > 1 THEN data[2] ELSE 0,
              IF Len(data) > 3 THEN data[3] * 256 + data[4] ELSE 0)

devices ==
  << [key |-> MOTOR_CONTROLLER_ID,
      value |-> createDeviceMap(sparkDbc, SPARK_PREFIX, <<"G", "E", "T", "_", "F", "I", "R", "M", "W", "A", "R", "E", "_", "V", "E", "R", "S", "I", "O", "N">>,
                                <<"S", "T", "A", "T", "U", "S", "_">>, FALSE)],
     [key |-> SERVO_CONTROLLER_ID,
      value |-> createDeviceMap(servohubDbc, SERVO_HUB_PREFIX, <<"G", "E", "T", "_", "V", "E", "R", "S", "I", "O", "N">>,
                                <<"S", "T", "A", "T", "U", "S", "_">>, FALSE)],
     [key |-> ENCODER_ID,
      value |-> createDeviceMap(encoderDbc, ENCODER_PREFIX, <<"G", "E", "T", "_", "V", "E", "R", "S", "I", "O", "N", "I", "N", "G", "_", "R", "E", "S", "P">>,
                                <<"P", "E", "R", "I", "O", "D", "I", "C", "_", "F", "R", "A", "M", "E", "_">>, TRUE)] >>

\* getWpilogTypeFromSignal with "factor !== 1" alone on line 201
getWpilogTypeAnyFactor(signal) ==
  IF signal.length = 1 THEN TypeBoolean
  ELSE IF \/ signal.dataType = "float"
          \/ signal.dataType = "double"
          \/ signal.factor # 1
       THEN (IF signal.length = 32 /\ signal.dataType = "float" THEN TypeFloat
             ELSE TypeDouble)
  ELSE TypeInt64

getWpilogTypeFromSignal(signal) ==
  IF signal.length = 1 THEN TypeBoolean
  ELSE IF \/ signal.dataType = "float"
          \/ signal.dataType = "double"
          \/ (signal.factor # 1 /\ signal.factor # 0)
       THEN (IF signal.length = 32 /\ signal.dataType = "float" THEN TypeFloat
             ELSE TypeDouble)
  ELSE TypeInt64

(***************************************************************************)
(* parseREVLOG: state                                                      *)
(***************************************************************************)
VARIABLES
  binary_data,       \* the input buffer
  outputFilename,    \* TRUE when the caller names an output file
  phase,             \* where parseREVLOG stands
  error,             \* the message of the Error thrown, "" while none
  cursor,            \* read position in binary_data
  payloadBytes,      \* payload of the entry being processed
  pc,                \* offset of the next sub-record in payloadBytes
  recordsProcessed,
  outputChunks, RECORDS, NEXT_RECORD_ID,
  emitted,           \* history: the records appended, in order
  returned,          \* <<>> or <<finalBuffer>>: the value the promise resolves to
  written,           \* <<>> or <<content>>: fs.writeFile(outputFilename, ...)
  call,              \* arguments of a helper applied on its own
  ret                \* its result

vars == <<binary_data, outputFilename, phase, error, cursor, payloadBytes, pc,
          recordsProcessed, outputChunks, RECORDS, NEXT_RECORD_ID, emitted,
          returned, written, call, ret>>

writerVars == <<outputChunks, RECORDS, NEXT_RECORD_ID, emitted>>

Writer ==
  [outputChunks |-> outputChunks, RECORDS |-> RECORDS,
   NEXT_RECORD_ID |-> NEXT_RECORD_ID, emitted |-> emitted]

SetWriter(w) ==
  /\ outputChunks' = w.outputChunks
  /\ RECORDS' = w.RECORDS
  /\ NEXT_RECORD_ID' = w.NEXT_RECORD_ID
  /\ emitted' = w.emitted

(***************************************************************************)
(* Inputs                                                                  *)
(***************************************************************************)
MaxEntries == 2
MaxCut == 1

\* a CAN id as readUInt32LE finds it: device type in bits 24-28 of the top byte,
\* API class and index in bits 6-15, device instance in bits 0-5
CanId(top, apiClass, apiIndex, instance) ==
  <<(apiIndex % 4) * 64 + instance, apiClass * 4 + (apiIndex \div 4), 5, top>>

FwSub(top, instance, data) == CanId(top, 38, 0, instance) \o data

PerSub(ms, top, apiIndex, instance, data) ==
  ms \o CanId(top, 46, apiIndex, instance) \o data

\* one source entry: control byte, entry id, declared payload length, payload
Entry(high, idLen, sizeLen, entryId, declared, payload) ==
  <<high * 16 + (sizeLen - 1) * 4 + (idLen - 1)>>
    \o IntToBytes(entryId, idLen) \o IntToBytes(declared, sizeLen) \o payload

Block(entryId, payload) == Entry(0, 1, 1, entryId, Len(payload), payload)

DataMix == <<44, 1, 3, 150, 0, 0, 128, 63>>
DataOnes == <<255, 255, 255, 255, 255, 255, 255, 255>>
DataLow == <<5, 0, 0, 7, 0, 0, 0, 0>>

F_Servo == FwSub(12, 3, <<2, 5, 0, 42, 0, 0>>)
F_Encoder == FwSub(7, 1, <<1, 2, 3, 4, 5, 6>>)
F_Spark == FwSub(130, 1, <<1, 2, 3, 4, 0, 0>>)
F_Unknown == FwSub(5, 1, <<9, 9, 9, 9, 9, 9>>)

P_Spark0 == PerSub(<<5, 0, 0, 0>>, 2, 0, 1, DataMix)
P_Spark0b == PerSub(<<0, 1, 0, 0>>, 2, 0, 1, DataLow)
P_Spark1 == PerSub(<<0, 0, 0, 0>>, 2, 1, 1, DataMix)
P_Servo0 == PerSub(<<255, 255, 255, 255>>, 12, 0, 2, DataOnes)
P_Servo1 == PerSub(<<1, 0, 0, 0>>, 12, 1, 2, DataLow)
P_Encoder0 == PerSub(<<7, 0, 0, 0>>, 7, 0, 1, DataOnes)
P_Encoder1 == PerSub(<<7, 0, 0, 0>>, 7, 1, 1, DataLow)
P_NoApi == PerSub(<<5, 0, 0, 0>>, 2, 5, 1, DataMix)
P_NoDevice == PerSub(<<5, 0, 0, 0>>, 5, 0, 1, DataMix)

Entries ==
  { Block(1, <<>>),
    Block(1, F_Servo),
    Block(1, F_Unknown \o F_Encoder \o F_Spark \o <<1, 2, 3>>),
    Entry(3, 4, 2, 1, 10, F_Spark),
    Block(2, P_Spark0),
    Block(2, P_Spark0b \o P_Spark1),
    Block(2, P_NoApi \o P_NoDevice \o P_Servo1 \o P_Servo0 \o <<0, 0>>),
    Block(2, P_Encoder0 \o P_Encoder1),
    Entry(15, 1, 3, 3, 2, <<7, 7>>),
    Entry(0, 1, 1, 2, 40, P_Spark0) }

RECURSIVE Flatten(_)
Flatten(seqs) == IF seqs = <<>> THEN <<>> ELSE Head(seqs) \o Flatten(Tail(seqs))

Inputs ==
  { <<>>, <<0>>, <<1>>, <<0, 1>>, <<3, 1>>, <<3, 5, 0>>, <<0, 3, 0>>,
    <<0, 1, 0, 0>>, <<0, 1, 0, 3, 2>> }
    \cup { SubSeq(Flatten(es), 1, Len(Flatten(es)) - c) :
             es \in UNION { [1..k -> Entries] : k \in 1..MaxEntries }, c \in 0..MaxCut }

(***************************************************************************)
(* parseREVLOG: steps                                                      *)
(***************************************************************************)
Init ==
  /\ binary_data \in Inputs
  /\ outputFilename \in BOOLEAN
  /\ phase = "start"
  /\ error = ""
  /\ cursor = 0
  /\ payloadBytes = <<>>
  /\ pc = 0
  /\ recordsProcessed = FALSE
  /\ outputChunks = <<>>
  /\ RECORDS = <<>>
  /\ NEXT_RECORD_ID = 1
  /\ emitted = <<>>
  /\ returned = <<>>
  /\ written = <<>>
  /\ call = <<>>
  /\ ret = <<>>

Throw(message) ==
  /\ phase' = "failed"
  /\ error' = message

\* the length check with the limit one byte short
CheckInputShort ==
  /\ phase = "start"
  /\ IF Len(binary_data) < 2
     THEN Throw("REVLOG file is empty or too small to be valid.")
     ELSE phase' = "setup" /\ error' = error
  /\ UNCHANGED <<binary_data, outputFilename, cursor, payloadBytes, pc, recordsProcessed,
                 writerVars, returned, written, call, ret>>

\* lines 29-31: the length check, before anything else is built
CheckInput ==
  /\ phase = "start"
  /\ IF Len(binary_data) < 3
     THEN Throw("REVLOG file is empty or too small to be valid.")
     ELSE phase' = "setup" /\ error' = error
  /\ UNCHANGED <<binary_data, outputFilename, cursor, payloadBytes, pc, recordsProcessed,
                 writerVars, returned, written, call, ret>>

HEADER == <<"W", "P", "I", "L", "O", "G">>
VERSION_MAJOR == 1
VERSION_MINOR == 0
EXTRA_HEADER == <<>>

fileHeader ==
  Utf8(HEADER)
    \o IntToBytes(BitOr(VERSION_MAJOR * 256, VERSION_MINOR), 2)
    \o IntToBytes(Len(EXTRA_HEADER), 4)
    \o Utf8(EXTRA_HEADER)

\* lines 33-332: catalogues and devices are built, the file header is pushed
Setup ==
  /\ phase = "setup"
  /\ phase' = "scan"
  /\ outputChunks' = outputChunks \o fileHeader
  /\ cursor' = 0
  /\ UNCHANGED <<binary_data, outputFilename, error, payloadBytes, pc, recordsProcessed,
                 RECORDS, NEXT_RECORD_ID, emitted, returned, written, call, ret>>

\* readVariableInt that returns the cursor it was given
readVariableIntStuck(data, at, length) ==
  IF at + length > Len(data)
  THEN [throw |-> TRUE, value |-> <<>>, cursor |-> at]
  ELSE [throw |-> FALSE, value |-> SubSeq(data, at + 1, at + length),
        cursor |-> at]

\* readVariableInt(data, cursor, length): [throw, value, cursor].  The value
\* readUIntLE returns may reach 2^32 - 1 and is kept as its bytes.
readVariableInt(data, at, length) ==
  IF at + length > Len(data)
  THEN [throw |-> TRUE, value |-> <<>>, cursor |-> at]
  ELSE [throw |-> FALSE, value |-> SubSeq(data, at + 1, at + length),
        cursor |-> at + length]

\* value === n for a value read by readUIntLE and a small n
ValueIs(value, n) == value = IntToBytes(n, Len(value))

\* at + value > limit, for a limit below 2^24
PastEnd(at, value, limit) ==
  ~FitsBytes(value, 3) \/ at + BytesToInt(value) > limit

\* lines 333-351, 376-378: the framing of one entry and the dispatch on its id
ReadEntry ==
  /\ phase = "scan"
  /\ cursor < Len(binary_data)
  /\ LET bitfield == binary_data[cursor + 1]
         entryIdLen == (bitfield % 4) + 1
         sizeLen == ((bitfield \div 4) % 4) + 1
         id == readVariableInt(binary_data, cursor + 1, entryIdLen)
         size == readVariableInt(binary_data, id.cursor, sizeLen)
     IN  IF id.throw \/ size.throw
         THEN /\ Throw("Not enough data.")
              /\ cursor' = id.cursor
              /\ UNCHANGED <<payloadBytes, pc, recordsProcessed>>
         ELSE IF PastEnd(size.cursor, size.value, Len(binary_data))
         THEN /\ phase' = "finish"
              /\ cursor' = size.cursor
              /\ UNCHANGED <<error, payloadBytes, pc, recordsProcessed>>
         ELSE /\ payloadBytes' = SubSeq(binary_data, size.cursor + 1,
                                        size.cursor + BytesToInt(size.value))
              /\ cursor' = size.cursor + BytesToInt(size.value)
              /\ pc' = 0
              /\ phase' = IF ValueIs(id.value, 1) THEN "firmware"
                          ELSE IF ValueIs(id.value, 2) THEN "periodic"
                          ELSE "scan"
              /\ recordsProcessed' =
                   (recordsProcessed \/ ValueIs(id.value, 1) \/ ValueIs(id.value, 2))
              /\ error' = error
  /\ UNCHANGED <<binary_data, outputFilename, writerVars, returned, written, call, ret>>

\* line 333: the loop condition fails
EndOfInput ==
  /\ phase = "scan"
  /\ cursor >= Len(binary_data)
  /\ phase' = "finish"
  /\ UNCHANGED <<binary_data, outputFilename, error, cursor, payloadBytes, pc,
                 recordsProcessed, writerVars, returned, written, call, ret>>

FIRMWARE == <<"/", "F", "I", "R", "M", "W", "A", "R", "E">>

\* lines 353-374: one 10-byte firmware sub-record; [throw, w]
firmwareRecord(w, sub) ==
  LET messageId == SubSeq(sub, 1, 4)
      canData == SubSeq(sub, 5, 10)
      deviceType == BitField(messageId, 24, 5)
      device == MapGet(devices, deviceType)
      padded == canData \o Zeros(8)
      decoded == decode(device.dbc, device.firmwareFrameId[1], padded)
      name == device.prefix \o Decimal(BitField(messageId, 0, 6)) \o FIRMWARE
      declared == IF name \in DOMAIN w.RECORDS THEN w
                  ELSE writeControlRecord([w EXCEPT !.NEXT_RECORD_ID = @ + 1],
                                          w.NEXT_RECORD_ID, name, TypeString, <<>>)
  IN  IF ~MapHas(devices, deviceType) THEN [throw |-> FALSE, w |-> w]
      ELSE IF device.firmwareFrameId = <<>> \/ device.firmwareFrameId = <<0>>
      THEN [throw |-> FALSE, w |-> w]
      ELSE IF decoded.kind = "throw" THEN [throw |-> TRUE, w |-> w]
      ELSE IF decoded.kind = "null" THEN [throw |-> FALSE, w |-> w]
      ELSE [throw |-> FALSE,
            w |-> writeRecord(declared, name,
                              [t |-> "string", s |-> parseFirmwareVersion(device, canData)],
                              Zeros(4))]

FirmwareRecord ==
  /\ phase = "firmware"
  /\ pc + 10 <= Len(payloadBytes)
  /\ LET r == firmwareRecord(Writer, SubSeq(payloadBytes, pc + 1, pc + 10))
     IN  IF r.throw
         THEN /\ Throw("RangeError")
              /\ UNCHANGED <<pc, writerVars>>
         ELSE /\ SetWriter(r.w)
              /\ pc' = pc + 10
              /\ UNCHANGED <<phase, error>>
  /\ UNCHANGED <<binary_data, outputFilename, cursor, payloadBytes, recordsProcessed,
                 returned, written, call, ret>>

\* line 352: no complete sub-record is left
FirmwareDone ==
  /\ phase = "firmware"
  /\ pc + 10 > Len(payloadBytes)
  /\ phase' = "scan"
  /\ UNCHANGED <<binary_data, outputFilename, error, cursor, payloadBytes, pc,
                 recordsProcessed, writerVars, returned, written, call, ret>>

FAULT == <<"F", "A", "U", "L", "T">>
WARNING == <<"W", "A", "R", "N", "I", "N", "G">>

\* lines 404-427: the loop over decoded.boundSignals, from the i-th on
RECURSIVE writeSignals(_, _, _, _, _, _, _)
writeSignals(w, device, messageSpec, messageId, msgTsMs, boundSignals, i) ==
  IF i > Len(boundSignals) THEN w
  ELSE LET signalName == boundSignals[i].key
           boundSignal == boundSignals[i].value
           signalSpec == MapGet(messageSpec.signals, signalName)
           folder == IF endsWith(signalName, FAULT) THEN <<"/">> \o FAULT \o <<"/">>
                     ELSE IF endsWith(signalName, WARNING)
                          THEN <<"/">> \o WARNING \o <<"/">>
                     ELSE <<"/">>
           name == device.prefix \o Decimal(BitField(messageId, 0, 6)) \o folder
                     \o signalName
           metadata == IF signalSpec.description # <<>> THEN signalSpec.description[1]
                       ELSE signalSpec.unit
           declared == IF name \in DOMAIN w.RECORDS THEN w
                       ELSE writeControlRecord([w EXCEPT !.NEXT_RECORD_ID = @ + 1],
                                               w.NEXT_RECORD_ID, name,
                                               getWpilogTypeFromSignal(signalSpec), metadata)
       IN  IF ~MapHas(messageSpec.signals, signalName)
           THEN writeSignals(w, device, messageSpec, messageId, msgTsMs, boundSignals, i + 1)
           ELSE writeSignals(writeRecord(declared, name, boundSignal.value, msgTsMs),
                             device, messageSpec, messageId, msgTsMs, boundSignals, i + 1)

\* periodicRecord where an API index without a periodic message falls back
\* to the first periodic message of the device
periodicRecordFirstFrame(w, sub) ==
  LET msgTsMs == SubSeq(sub, 1, 4)
      messageId == SubSeq(sub, 5, 8)
      canData == SubSeq(sub, 9, 16)
      deviceType == BitField(messageId, 24, 5)
      device == MapGet(devices, deviceType)
      frameIndex == BitField(messageId, 6, 4)
      messageSpec == IF MapHas(device.periodicFrames, frameIndex)
                     THEN MapGet(device.periodicFrames, frameIndex)
                     ELSE device.periodicFrames[1].value
      alignedData == IF Len(canData) < messageSpec.dlc
                     THEN canData \o Zeros(messageSpec.dlc - Len(canData))
                     ELSE canData
      decoded == decode(device.dbc, messageSpec.id, alignedData)
  IN  IF ~MapHas(devices, deviceType) THEN w
      ELSE IF decoded.kind # "decoded" THEN w
      ELSE writeSignals(w, device, messageSpec, messageId, msgTsMs,
                        decoded.boundSignals, 1)

\* lines 380-433: one 16-byte periodic sub-record
periodicRecord(w, sub) ==
  LET msgTsMs == SubSeq(sub, 1, 4)
      messageId == SubSeq(sub, 5, 8)
      canData == SubSeq(sub, 9, 16)
      deviceType == BitField(messageId, 24, 5)
      device == MapGet(devices, deviceType)
      frameIndex == BitField(messageId, 6, 4)
      messageSpec == MapGet(device.periodicFrames, frameIndex)
      alignedData == IF Len(canData) < messageSpec.dlc
                     THEN canData \o Zeros(messageSpec.dlc - Len(canData))
                     ELSE canData
      decoded == decode(device.dbc, messageSpec.id, alignedData)
  IN  IF ~MapHas(devices, deviceType) THEN w
      ELSE IF ~MapHas(device.periodicFrames, frameIndex) THEN w
      ELSE IF decoded.kind # "decoded" THEN w
      ELSE writeSignals(w, device, messageSpec, messageId, msgTsMs,
                        decoded.boundSignals, 1)

PeriodicRecord ==
  /\ phase = "periodic"
  /\ pc + 16 <= Len(payloadBytes)
  /\ SetWriter(periodicRecord(Writer, SubSeq(payloadBytes, pc + 1, pc + 16)))
  /\ pc' = pc + 16
  /\ UNCHANGED <<binary_data, outputFilename, phase, error, cursor, payloadBytes,
                 recordsProcessed, returned, written, call, ret>>

\* line 379: no complete sub-record is left
PeriodicDone ==
  /\ phase = "periodic"
  /\ pc + 16 > Len(payloadBytes)
  /\ phase' = "scan"
  /\ UNCHANGED <<binary_data, outputFilename, error, cursor, payloadBytes, pc,
                 recordsProcessed, writerVars, returned, written, call, ret>>

\* lines 438-441
Finish ==
  /\ phase = "finish"
  /\ IF ~recordsProcessed
     THEN /\ Throw("No valid records found.")
          /\ UNCHANGED <<returned, written>>
     ELSE /\ phase' = "done"
          /\ error' = error
          /\ returned' = <<outputChunks>>
          /\ written' = IF outputFilename THEN <<outputChunks>> ELSE written
  /\ UNCHANGED <<binary_data, outputFilename, cursor, payloadBytes, pc, recordsProcessed,
                 writerVars, call, ret>>

Next ==
  \/ CheckInput
  \/ Setup
  \/ ReadEntry
  \/ EndOfInput
  \/ FirmwareRecord
  \/ FirmwareDone
  \/ PeriodicRecord
  \/ PeriodicDone
  \/ Finish

Spec == Init /\ [][Next]_vars

\* parseREVLOG has returned or thrown
Halted == phase \in {"done", "failed"}

\* parseREVLOG is one synchronous run: once called, each statement is followed
\* by the next until the function returns or throws.  This is weak fairness of
\* Next with its enabling condition, ~Halted, written out.
FairSpec == Spec /\ ([]<>Halted \/ []<><<Next>>_vars)


(***************************************************************************)
(* The helpers applied on their own.  Each specification draws the         *)
(* arguments of one call (call), applies the helper and keeps what it      *)
(* returns (ret) or appends (the writer); the other variables stay as      *)
(* parseREVLOG initialises them.                                           *)
(***************************************************************************)
Idle ==
  /\ binary_data = <<>>
  /\ outputFilename = FALSE
  /\ phase = "call"
  /\ error = ""
  /\ cursor = 0
  /\ payloadBytes = <<>>
  /\ pc = 0
  /\ recordsProcessed = FALSE
  /\ returned = <<>>
  /\ written = <<>>

NoWriter ==
  /\ outputChunks = <<>>
  /\ RECORDS = <<>>
  /\ NEXT_RECORD_ID = 1
  /\ emitted = <<>>

\* a catalogue of one message with one signal: the BO_ line, the SG_ line
\* and a SIG_VALTYPE_ line with the given code
oneSignalLines(sg, code) ==
  << [kind |-> "BO", id |-> 1, name |-> <<"M">>, dlc |-> 8, sender |-> <<"X">>],
     sg,
     [kind |-> "VALTYPE", id |-> 1, name |-> sg.name, code |-> code] >>

SG(startBit, length, byteOrder, sign, scale, range) ==
  [kind |-> "SG", name |-> <<"S">>, startBit |-> startBit, length |-> length,
   byteOrder |-> byteOrder, sign |-> sign, factor |-> scale[1], offset |-> scale[2],
   min |-> range[1], max |-> range[2], unit |-> <<"u">>]

\* ---- CanDecoder.decode ----
DecodeSignals ==
  { sg \in { SG(startBit, length, byteOrder, sign, scale, range) :
               startBit \in {0, 3, 24, 56}, length \in {1, 5, 8, 16, 40, 64},
               byteOrder \in {0, 1}, sign \in {"+", "-"},
               scale \in {<<1, 0>>, <<2, 0>>, <<1, 3>>, <<0, 7>>},
               range \in {<<0, 0>>, <<0, 100>>, <<-5, 5>>} } :
      /\ (sg.factor # 1 \/ sg.offset # 0) => sg.length <= 16
      /\ sg.byteOrder = 0 => (sg.factor = 1 /\ sg.offset = 0 /\ sg.startBit \in {0, 3}) }

DecodePayloads ==
  { Zeros(8), DataMix, DataOnes,
    <<0, 0, 0, 0, 0, 0, 0, 128>>,
    <<0, 0, 0, 0, 0, 0, 240, 127>>,
    <<0, 0, 200, 66, 0, 0, 200, 194>>,
    <<150>> }

DecodeInit ==
  /\ Idle
  /\ NoWriter
  /\ call \in [signal : DecodeSignals, code : {0, 1, 2}, data : DecodePayloads]
  /\ ret = <<>>

\* decode(createFrame(1, data)) with the one-signal catalogue loaded
Decode ==
  /\ phase = "call"
  /\ phase' = "return"
  /\ ret' = <<decode(load(oneSignalLines(call.signal, call.code)), 1, call.data)>>
  /\ UNCHANGED <<binary_data, outputFilename, error, cursor, payloadBytes, pc,
                 recordsProcessed, writerVars, returned, written, call>>

DecodeNext == Decode

DecodeSpec == DecodeInit /\ [][DecodeNext]_vars

\* ---- the stream a periodic signal declares ----
KindSignals ==
  { SG(0, length, 1, sign, scale, <<0, 0>>) :
      length \in {1, 8, 32, 64}, sign \in {"+", "-"},
      scale \in {<<1, 0>>, <<1, 3>>, <<2, 0>>, <<0, 7>>, <<0, 0>>} }

KindInit ==
  /\ Idle
  /\ NoWriter
  /\ call \in [signal : KindSignals, code : {0, 1, 2}]
  /\ ret = <<>>

\* lines 399-427 for one frame of a message that holds the drawn signal
DeclareStream ==
  /\ phase = "call"
  /\ phase' = "return"
  /\ LET dbc == load(oneSignalLines(call.signal, call.code))
         messageSpec == dbc.objs[MapGet(dbc.messagesById, 1)]
         decoded == decode(dbc, messageSpec.id, Zeros(8))
     IN  /\ SetWriter(writeSignals(Writer, MapGet(devices, MOTOR_CONTROLLER_ID),
                                   messageSpec, CanId(MOTOR_CONTROLLER_ID, 46, 0, 1),
                                   Zeros(4), decoded.boundSignals, 1))
         /\ ret' = <<MapGet(messageSpec.signals, call.signal.name)>>
  /\ UNCHANGED <<binary_data, outputFilename, error, cursor, payloadBytes, pc,
                 recordsProcessed, returned, written, call>>

KindNext == DeclareStream

KindSpec == KindInit /\ [][KindNext]_vars

\* ---- writeRecord on a declared stream ----
MaxValues == 2

Big(neg, mag) == [t |-> "bigint", neg |-> neg, mag |-> mag]

WriteValues ==
  { Big(FALSE, Zeros(8)), Big(FALSE, U64(5)), Big(TRUE, U64(1)),
    Big(FALSE, <<255, 255, 255, 255, 255, 255, 255, 127>>),
    Big(FALSE, <<0, 0, 0, 0, 0, 0, 0, 128>>),
    Big(FALSE, DataOnes),
    Big(TRUE, <<0, 0, 0, 0, 0, 0, 0, 128>>),
    Big(TRUE, <<1, 0, 0, 0, 0, 0, 0, 128>>),
    Num(7), Num(-3),
    [t |-> "number", b |-> <<0, 0, 0, 0, 0, 0, 248, 63>>],
    [t |-> "number", b |-> NaNBytes],
    [t |-> "number", b |-> <<0, 0, 0, 0, 0, 0, 240, 127>>],
    [t |-> "number", b |-> <<0, 0, 0, 0, 0, 0, 240, 255>>],
    [t |-> "number", b |-> <<0, 0, 0, 0, 0, 0, 240, 67>>],
    [t |-> "string", s |-> <<"2", ".", "5", ".", "4", "2">>] }

WriteTypes == {TypeInt64, TypeBoolean, TypeFloat, TypeDouble, <<"r", "a", "w">>}

StreamName == <<"R", "E", "V", "/", "S">>

WriteInit ==
  /\ Idle
  /\ call \in [type : WriteTypes, id : {1, 300}, timestampMs : {Zeros(4), <<5, 0, 0, 0>>},
               values : UNION { [1..n -> WriteValues] : n \in 1..MaxValues }]
  /\ outputChunks = <<>>
  /\ RECORDS = (StreamName :> [id |-> call.id, type |-> call.type])
  /\ NEXT_RECORD_ID = call.id + 1
  /\ emitted = <<>>
  /\ ret = <<>>

\* line 426: the next value of the frame goes to its stream
WriteValue ==
  /\ phase = "call"
  /\ pc < Len(call.values)
  /\ SetWriter(writeRecord(Writer, StreamName, call.values[pc + 1], call.timestampMs))
  /\ pc' = pc + 1
  /\ UNCHANGED <<binary_data, outputFilename, phase, error, cursor, payloadBytes,
                 recordsProcessed, returned, written, call, ret>>

WriteNext == WriteValue

WriteSpec == WriteInit /\ [][WriteNext]_vars

\* ---- the framing of a data record ----
FrameIds ==
  { U64(1), U64(255), U64(256), U64(65535), U64(65536), U64(16777215), U64(16777216),
    <<255, 255, 255, 127, 0, 0, 0, 0>>, <<0, 0, 0, 128, 0, 0, 0, 0>>,
    <<255, 255, 255, 255, 0, 0, 0, 0>> }

FrameTimestamps ==
  { IntToBytes(0, 4), IntToBytes(1, 4), IntToBytes(65, 4), IntToBytes(66, 4),
    IntToBytes(16777, 4), IntToBytes(16778, 4), IntToBytes(4294967, 4),
    IntToBytes(4294968, 4), <<75, 55, 137, 65>>, <<76, 55, 137, 65>>,
    <<255, 255, 255, 255>> }

FramePayloads ==
  { [i \in 1..n |-> (7 * i) % 256] : n \in {0, 1, 4, 8, 255, 256} }

FrameInit ==
  /\ Idle
  /\ NoWriter
  /\ call \in [id : FrameIds, timestampMs : FrameTimestamps, payload : FramePayloads]
              \cup [id : {U64(2), <<255, 255, 255, 255, 0, 0, 0, 0>>},
                    timestampMs : {<<255, 255, 255, 255>>},
                    payload : {[i \in 1..n |-> (7 * i) % 256] : n \in {65535, 65536}}]
  /\ ret = <<>>

\* lines 180-193 for a stream with the drawn id
Frame ==
  /\ phase = "call"
  /\ phase' = "return"
  /\ ret' = <<recordFrame(call.id, call.payload, timestampUsOf(call.timestampMs))>>
  /\ UNCHANGED <<binary_data, outputFilename, error, cursor, payloadBytes, pc,
                 recordsProcessed, writerVars, returned, written, call>>

FrameNext == Frame

FrameSpec == FrameInit /\ [][FrameNext]_vars

\* ---- Dbc.load, line by line ----
MaxLines == 3

MessageLine(id, name) ==
  [kind |-> "BO", id |-> id, name |-> name, dlc |-> 8, sender |-> <<"X">>]

SignalLine(name) ==
  [kind |-> "SG", name |-> name, startBit |-> 0, length |-> 8,
   byteOrder |-> 1, sign |-> "+", factor |-> 1, offset |-> 0,
   min |-> 0, max |-> 0, unit |-> <<>>]

ValTypeLine(id, name, code) ==
  [kind |-> "VALTYPE", id |-> id, name |-> name, code |-> code]

CommentLine(id, name) ==
  [kind |-> "CM", id |-> id, name |-> name, text |-> <<"c">>]

LoadLines ==
  { MessageLine(1, <<"M">>), MessageLine(2, <<"N">>),
    SignalLine(<<"S">>), SignalLine(<<"T">>),
    ValTypeLine(1, <<"S">>, 1), ValTypeLine(2, <<"S">>, 2), ValTypeLine(1, <<"T">>, 2),
    CommentLine(1, <<"S">>), CommentLine(2, <<"T">>),
    [kind |-> "other"] }

LoadInit ==
  /\ Idle
  /\ NoWriter
  /\ call \in [lines : UNION { [1..n -> LoadLines] : n \in 0..MaxLines }]
  /\ ret = <<NewDbc>>

\* part_000 lines 53-105: one turn of the loop over the lines
LoadLine ==
  /\ phase = "call"
  /\ pc < Len(call.lines)
  /\ ret' = <<loadLine(ret[1], call.lines[pc + 1])>>
  /\ pc' = pc + 1
  /\ UNCHANGED <<binary_data, outputFilename, phase, error, cursor, payloadBytes,
                 recordsProcessed, writerVars, returned, written, call>>

\* part_000 line 106: return this
LoadReturn ==
  /\ phase = "call"
  /\ pc = Len(call.lines)
  /\ phase' = "return"
  /\ UNCHANGED <<binary_data, outputFilename, error, cursor, payloadBytes, pc,
                 recordsProcessed, writerVars, returned, written, call, ret>>

LoadNext == LoadLine \/ LoadReturn

LoadSpec == LoadInit /\ [][LoadNext]_vars

(***************************************************************************)
(* The target format, as a reader of the output applies it                 *)
(***************************************************************************)
\* a little-endian field widened to 64 bits
Widen(bytes) == bytes \o Zeros(8 - Len(bytes))

\* the record found after `at` bytes: control byte bits 0-1, 2-3 and 4-6 give
\* the widths of the id, the payload length and the timestamp
readFrame(bytes, at) ==
  LET bitfield == bytes[at + 1]
      idWidth == (bitfield % 4) + 1
      sizeWidth == ((bitfield \div 4) % 4) + 1
      timestampWidth == ((bitfield \div 16) % 8) + 1
      sizeAt == at + 1 + idWidth
      timestampAt == sizeAt + sizeWidth
      payloadAt == timestampAt + timestampWidth
      size == BytesToInt(SubSeq(bytes, sizeAt + 1, sizeAt + sizeWidth))
  IN  [idWidth |-> idWidth, sizeWidth |-> sizeWidth, timestampWidth |-> timestampWidth,
       id |-> Widen(SubSeq(bytes, at + 2, at + 1 + idWidth)),
       size |-> size,
       timestamp |-> Widen(SubSeq(bytes, timestampAt + 1, timestampAt + timestampWidth)),
       payload |-> SubSeq(bytes, payloadAt + 1, payloadAt + size),
       next |-> payloadAt + size]

RECURSIVE readFrames(_, _)
readFrames(bytes, at) ==
  IF at >= Len(bytes) THEN <<>>
  ELSE <<readFrame(bytes, at)>> \o readFrames(bytes, readFrame(bytes, at).next)

\* a control record has id 0; its payload is: 0, the declared id (4 bytes), then
\* name, kind and metadata, each after its 4-byte length
isControl(frame) == IsZero(frame.id)
declaredId(frame) == BytesToInt(SubSeq(frame.payload, 2, 5))
declaredName(frame) ==
  SubSeq(frame.payload, 10, 9 + BytesToInt(SubSeq(frame.payload, 6, 9)))
declaredKind(frame) ==
  LET at == 9 + BytesToInt(SubSeq(frame.payload, 6, 9))
  IN  SubSeq(frame.payload, at + 5, at + 4 + BytesToInt(SubSeq(frame.payload, at + 1, at + 4)))

\* the records of the output so far, after the 12-byte file header
outputFrames ==
  IF outputChunks = <<>> THEN <<>> ELSE readFrames(outputChunks, Len(fileHeader))

(***************************************************************************)
(* Properties of a conversion (specification Spec)                         *)
(***************************************************************************)
\* C1: at every point of a conversion, the control records in the output
\* declare the identifiers 1, 2, 3, ... in the order their names were first
\* seen, no name is declared twice, no identifier stands for two names, and
\* every data record carries the identifier that a control record earlier in
\* the output declared for the same name.
C1_StreamIdentifiers ==
  LET frames == outputFrames
      controls == SelectSeq(frames, isControl)
  IN  /\ Len(frames) = Len(emitted)
      /\ \A i \in 1..Len(frames) :
           /\ isControl(frames[i]) <=> emitted[i].op = "control"
           /\ isControl(frames[i]) =>
                /\ declaredName(frames[i]) = Utf8(emitted[i].name)
                /\ declaredId(frames[i]) = emitted[i].id
           /\ ~isControl(frames[i]) =>
                \E j \in 1..(i - 1) :
                  /\ isControl(frames[j])
                  /\ declaredName(frames[j]) = Utf8(emitted[i].name)
                  /\ frames[i].id = U64(declaredId(frames[j]))
      /\ \A k \in 1..Len(controls) : declaredId(controls[k]) = k
      /\ \A j, k \in 1..Len(controls) :
           (declaredName(controls[j]) = declaredName(controls[k])
              \/ declaredId(controls[j]) = declaredId(controls[k])) => j = k
      /\ NEXT_RECORD_ID = Len(controls) + 1

\* a finished conversion that declared three streams or more and wrote to one
\* of them twice
C1_Witness ==
  /\ phase = "done"
  /\ Len(SelectSeq(outputFrames, isControl)) >= 3
  /\ \E i, j \in 1..Len(emitted) :
       /\ i < j
       /\ emitted[i].op = "data" /\ emitted[j].op = "data"
       /\ emitted[i].name = emitted[j].name

\* C2: an input of 3 bytes or more in which the scan meets no entry with id 1
\* or 2 ends with the error 'No valid records found.', nothing emitted for the
\* entries it skipped, no buffer returned and no file written.
C2_NoValidRecords ==
  (Len(binary_data) >= 3 /\ ~recordsProcessed /\ phase \in {"done", "failed"}) =>
    /\ phase = "failed"
    /\ error = "No valid records found."
    /\ emitted = <<>>
    /\ returned = <<>>
    /\ written = <<>>

\* C3: an input shorter than 3 bytes fails with the input-validation error
\* before anything is scanned: no header and no record is produced, no
\* identifier is allocated, nothing is returned and no file is written.
C3_ShortInputRejected ==
  Len(binary_data) < 3 =>
    /\ phase \in {"start", "failed"}
    /\ (phase = "failed") =>
         (error = "REVLOG file is empty or too small to be valid.")
    /\ cursor = 0
    /\ ~recordsProcessed
    /\ outputChunks = <<>>
    /\ emitted = <<>>
    /\ DOMAIN RECORDS = {}
    /\ NEXT_RECORD_ID = 1
    /\ returned = <<>>
    /\ written = <<>>

\* a 2-byte input, rejected, with an output file named
C3_Witness ==
  /\ Len(binary_data) = 2
  /\ outputFilename
  /\ phase = "failed"

\* C4: for an input of 3 bytes or more, an entry whose declared widths or
\* payload length run past the end of the input ends the scan without a
\* framing error, and the conversion succeeds when an entry with id 1 or 2
\* was read before it.
C4_TruncationEndsScan ==
  Len(binary_data) >= 3 =>
    /\ error # "Not enough data."
    /\ (recordsProcessed /\ phase \in {"done", "failed"}) => (phase = "done")

\* the devices that have a firmware message, and their prefixes
firmwareDevices ==
  { devices[i].key : i \in { k \in 1..Len(devices) :
                               devices[k].value.firmwareFrameId \notin {<<>>, <<0>>} } }

\* C8: every complete 10-byte sub-record of a firmware block whose device type
\* (bits 24-28 of the CAN id) is a device with a firmware message appends
\* exactly one data record, on the string stream <prefix><instance>/FIRMWARE
\* (declared just before it when new), with timestamp 0 and the value
\* major.minor.build = byte 0, byte 1, bytes 2-3 big-endian; for the encoder
\* (type 7) the value is bytes 5, 4, 3.  Any other sub-record appends nothing.
C8_FirmwareRecord ==
  [][ (phase = "firmware" /\ pc + 10 <= Len(payloadBytes)) =>
      LET sub == SubSeq(payloadBytes, pc + 1, pc + 10)
          data == SubSeq(sub, 5, 10)
          deviceType == sub[4] % 32
          instance == sub[1] % 64
          name == MapGet(devices, deviceType).prefix \o Decimal(instance) \o FIRMWARE
          version == IF deviceType = 7
                     THEN Decimal(data[6]) \o <<".">> \o Decimal(data[5]) \o <<".">>
                            \o Decimal(data[4])
                     ELSE Decimal(data[1]) \o <<".">> \o Decimal(data[2]) \o <<".">>
                            \o Decimal(256 * data[3] + data[4])
          added == readFrames(outputChunks', Len(outputChunks))
          last == added[Len(added)]
      IN  /\ phase' = "firmware"
          /\ pc' = pc + 10
          /\ IF deviceType \in firmwareDevices
             THEN /\ Len(added) = (IF name \in DOMAIN RECORDS THEN 1 ELSE 2)
                  /\ Len(added) = 2 =>
                       /\ isControl(added[1])
                       /\ declaredName(added[1]) = Utf8(name)
                       /\ declaredKind(added[1]) = Utf8(TypeString)
                  /\ ~isControl(last)
                  /\ name \in DOMAIN RECORDS'
                  /\ RECORDS'[name].type = TypeString
                  /\ last.id = U64(RECORDS'[name].id)
                  /\ IsZero(last.timestamp)
                  /\ last.payload = Utf8(version)
             ELSE outputChunks' = outputChunks /\ RECORDS' = RECORDS
    ]_vars

\* the sub-record of device type 12, instance 3, data [2,5,0,42,0,0] has been
\* processed and the output ends with the text 2.5.42
C8_Witness ==
  /\ phase = "firmware"
  /\ pc >= 10
  /\ SubSeq(payloadBytes, pc - 9, pc) = <<3, 152, 5, 12, 2, 5, 0, 42, 0, 0>>
  /\ <<"R", "E", "V", "/", "S", "e", "r", "v", "o", "H", "u", "b", "-", "3",
       "/", "F", "I", "R", "M", "W", "A", "R", "E">> \in DOMAIN RECORDS
  /\ Len(outputChunks) > 6
  /\ SubSeq(outputChunks, Len(outputChunks) - 5, Len(outputChunks))
       = <<50, 46, 53, 46, 52, 50>>


(***************************************************************************)
(* Properties of CanDecoder.decode (specification DecodeSpec)              *)
(***************************************************************************)
\* lo <= v <= hi for a decoded value and two small integers
inRange(v, lo, hi) ==
  IF v.t = "bigint"
  THEN /\ FitsBytes(v.mag, 3)
       /\ LET n == IF v.neg THEN -BytesToInt(SubSeq(v.mag, 1, 3))
                   ELSE BytesToInt(SubSeq(v.mag, 1, 3))
          IN  lo <= n /\ n <= hi
  ELSE ~F64IsNaN(v.b) /\ ~F64Lt(v.b, lo) /\ ~F64Gt(v.b, hi)

\* C5: for every signal whose declared min or max is non-zero, and every
\* payload, the physical value decode returns lies in [min, max].
C5_ClampedIntoRange ==
  (phase = "return" /\ ret[1].kind = "decoded") =>
    \A i \in 1..Len(ret[1].boundSignals) :
      LET bound == ret[1].boundSignals[i].value
      IN  (bound.signal.min # 0 \/ bound.signal.max # 0) =>
            inRange(bound.value, bound.signal.min, bound.signal.max)

\* the `length`-bit field at startBit of the payload read as a 64-bit
\* little-endian integer: two's complement when signed, unsigned otherwise
fieldValue(data, startBit, length, signed) ==
  LET padded == data \o Zeros(8 - Len(data))
      bits == [k \in 1..length |-> BitAt(padded, startBit + k)]
      wide(b) == BitsToBytes(b \o [k \in 1..(64 - length) |-> 0])
  IN  IF signed /\ bits[length] = 1
      THEN [t |-> "bigint", neg |-> TRUE,
            mag |-> AddSmall(wide([k \in 1..length |-> 1 - bits[k]]), 1)]
      ELSE [t |-> "bigint", neg |-> FALSE, mag |-> wide(bits)]

\* C6: for a little-endian integer signal with factor 1 and offset 0 whose
\* field lies in the first 64 payload bits, the physical value equals the raw
\* value, and both are the field itself as an exact integer.
C6_ExactField ==
  (/\ phase = "return"
   /\ call.code = 0
   /\ call.signal.byteOrder = 1
   /\ call.signal.factor = 1 /\ call.signal.offset = 0
   /\ call.signal.startBit + call.signal.length <= 64) =>
    /\ ret[1].kind = "decoded"
    /\ Len(ret[1].boundSignals) = 1
    /\ LET bound == ret[1].boundSignals[1].value
           field == fieldValue(call.data, call.signal.startBit, call.signal.length,
                               call.signal.sign = "-")
       IN  bound.value = field /\ bound.rawValue = field

\* a signed 64-bit field holding -2^63, beyond what a double holds exactly
C6_Witness ==
  /\ phase = "return"
  /\ call.code = 0
  /\ call.signal = SG(0, 64, 1, "-", <<1, 0>>, <<0, 100>>)
  /\ call.data = <<0, 0, 0, 0, 0, 0, 0, 128>>
  /\ ret[1].boundSignals[1].value.value
       = [t |-> "bigint", neg |-> TRUE, mag |-> <<0, 0, 0, 0, 0, 0, 0, 128>>]

(***************************************************************************)
(* Properties of the declared kind (specification KindSpec)                *)
(***************************************************************************)
\* the kind the control record of the drawn signal declares
kindDeclared ==
  LET frames == readFrames(outputChunks, 0)
  IN  IF Len(frames) = 2 /\ isControl(frames[1]) /\ ~isControl(frames[2])
      THEN declaredKind(frames[1]) ELSE <<>>

\* C7 as stated: boolean for a 1-bit signal; otherwise float (32-bit float
\* kind) or double when the kind is float or double or the factor is not 1;
\* int64 for the rest -- for every factor, 0 included.
C7_KindForEveryFactor ==
  (phase = "return") =>
    kindDeclared = Utf8(
      IF call.signal.length = 1 THEN TypeBoolean
      ELSE IF call.code \in {1, 2} \/ call.signal.factor # 1
           THEN (IF call.signal.length = 32 /\ call.code = 1 THEN TypeFloat
                 ELSE TypeDouble)
      ELSE TypeInt64)

\* C7, amended: as above, but a factor of 0 counts like a factor of 1: an
\* integer-kind signal of more than one bit is declared double only when its
\* factor is neither 1 nor 0, and int64 otherwise.
C7_KindFromSignal ==
  (phase = "return") =>
    kindDeclared = Utf8(
      IF call.signal.length = 1 THEN TypeBoolean
      ELSE IF call.code \in {1, 2} \/ call.signal.factor \notin {0, 1}
           THEN (IF call.signal.length = 32 /\ call.code = 1 THEN TypeFloat
                 ELSE TypeDouble)
      ELSE TypeInt64)

\* an 8-bit integer-kind signal with factor 0 has declared an int64 stream
C7_Witness ==
  /\ phase = "return"
  /\ call.code = 0
  /\ call.signal.length = 8
  /\ call.signal.factor = 0
  /\ kindDeclared = Utf8(TypeInt64)

(***************************************************************************)
(* Properties of writeRecord (specifications WriteSpec and FrameSpec)      *)
(***************************************************************************)
\* v fits a signed 64-bit integer
encodable(v) ==
  IF v.t = "bigint"
  THEN \/ v.mag[8] < 128
       \/ v.neg /\ v.mag = <<0, 0, 0, 0, 0, 0, 0, 128>>
  ELSE IF v.t = "number" THEN F64IsFinite(v.b) /\ F64Unbiased(v.b) < 63
  ELSE FALSE

\* 1000 * ms as a 64-bit value: (ms << 10) - (ms << 4) - (ms << 3)
shifted(bytes, n) ==
  BitsToBytes([i \in 1..64 |-> IF i > n THEN BitAt(bytes, i - n) ELSE 0])

microseconds(ms) ==
  SubBytes(SubBytes(shifted(Widen(ms), 10), shifted(Widen(ms), 4)), shifted(Widen(ms), 3))

\* C9: on an int64 stream every value written appends exactly one data record
\* with the id of the stream and its timestamp; a value that does not fit a
\* signed 64-bit integer is written as eight zero bytes, and the values after
\* it are written as if nothing had happened (an integer that fits keeps its
\* two's-complement bytes).
C9_UnencodableWrittenAsZero ==
  (call.type = TypeInt64) =>
    LET frames == readFrames(outputChunks, 0)
    IN  /\ Len(frames) = pc
        /\ phase = "call"
        /\ \A k \in 1..pc :
             /\ frames[k].id = U64(call.id)
             /\ frames[k].timestamp = microseconds(call.timestampMs)
             /\ frames[k].size = 8
             /\ ~encodable(call.values[k]) => frames[k].payload = Zeros(8)
             /\ (encodable(call.values[k]) /\ call.values[k].t = "bigint") =>
                  frames[k].payload
                    = (IF call.values[k].neg
                       THEN AddSmall([i \in 1..8 |-> 255 - call.values[k].mag[i]], 1)
                       ELSE call.values[k].mag)

\* 2^64 - 1 was written as zero and the 5 after it as 5
C9_Witness ==
  /\ call.type = TypeInt64
  /\ pc = 2
  /\ call.values = <<Big(FALSE, DataOnes), Big(FALSE, U64(5))>>
  /\ readFrames(outputChunks, 0)[1].payload = Zeros(8)
  /\ readFrames(outputChunks, 0)[2].payload = <<5, 0, 0, 0, 0, 0, 0, 0>>

\* w bytes are the fewest that hold v
minimalWidth(w, v) == FitsBytes(v, w) /\ (w = 1 \/ v[w] # 0)

\* C10: the bytes of a data record, read back by the target framing rules,
\* give the id, the payload length, the timestamp in microseconds and the
\* payload that were written, and nothing is left over; each of the three
\* widths is the least that holds its value.
C10_FramingRoundTrip ==
  (phase = "return") =>
    LET frame == readFrame(ret[1], 0)
    IN  /\ ret[1][1] < 128
        /\ frame.id = call.id
        /\ frame.size = Len(call.payload)
        /\ frame.timestamp = microseconds(call.timestampMs)
        /\ frame.payload = call.payload
        /\ frame.next = Len(ret[1])
        /\ minimalWidth(frame.idWidth, frame.id)
        /\ minimalWidth(frame.sizeWidth, U64(frame.size))
        /\ minimalWidth(frame.timestampWidth, frame.timestamp)

\* id 2^32 - 1, a 256-byte payload and the largest timestamp: widths 4, 2, 6
C10_Witness ==
  /\ phase = "return"
  /\ call.id = <<255, 255, 255, 255, 0, 0, 0, 0>>
  /\ Len(call.payload) = 256
  /\ call.timestampMs = <<255, 255, 255, 255>>
  /\ ret[1][1] = 3 + 4 * 1 + 16 * 5


(***************************************************************************)
(* Skipped sub-records (specification Spec)                                *)
(***************************************************************************)
\* the catalogue and the periodic-message prefix registered for a device type
registered ==
  (MOTOR_CONTROLLER_ID :> [dbc |-> sparkDbc, prefix |-> <<"S", "T", "A", "T", "U", "S", "_">>])
  @@ (SERVO_CONTROLLER_ID :> [dbc |-> servohubDbc, prefix |-> <<"S", "T", "A", "T", "U", "S", "_">>])
  @@ (ENCODER_ID :> [dbc |-> encoderDbc,
                     prefix |-> <<"P", "E", "R", "I", "O", "D", "I", "C", "_", "F", "R", "A", "M", "E", "_">>])

\* the device type has a periodic message whose id carries apiIndex in bits 6-9
hasPeriodicMessage(deviceType, apiIndex) ==
  /\ deviceType \in DOMAIN registered
  /\ \E i \in 1..Len(registered[deviceType].dbc.objs) :
       LET m == registered[deviceType].dbc.objs[i]
       IN  /\ Len(m.name) >= Len(registered[deviceType].prefix)
           /\ SubSeq(m.name, 1, Len(registered[deviceType].prefix))
                = registered[deviceType].prefix
           /\ (m.id \div 64) % 16 = apiIndex

\* C11: a periodic sub-record whose device type is not registered, or whose
\* API index (bits 6-9 of the CAN id) has no periodic message for the device,
\* has no effect: nothing is emitted, the registry and the next identifier
\* stay, no error is raised, and the block goes on with the next sub-record
\* from a state that differs only in the position within the block.
C11_UnknownPeriodicSkipped ==
  [][ (phase = "periodic" /\ pc + 16 <= Len(payloadBytes)) =>
      LET sub == SubSeq(payloadBytes, pc + 1, pc + 16)
          deviceType == sub[8] % 32
          apiIndex == (sub[5] \div 64) + 4 * (sub[6] % 4)
      IN  ~hasPeriodicMessage(deviceType, apiIndex) =>
            /\ pc' = pc + 16
            /\ phase' = "periodic"
            /\ error' = error
            /\ outputChunks' = outputChunks
            /\ emitted' = emitted
            /\ RECORDS' = RECORDS
            /\ NEXT_RECORD_ID' = NEXT_RECORD_ID
            /\ UNCHANGED <<binary_data, outputFilename, cursor, payloadBytes,
                           recordsProcessed, returned, written>>
    ]_vars

\* a block whose first two sub-records were skipped (no message for API index
\* 5, no device of type 5) and whose fourth then declared its streams with the
\* identifiers from 1
C11_Witness ==
  /\ phase = "periodic"
  /\ pc = 64
  /\ SubSeq(payloadBytes, 1, 32) = P_NoApi \o P_NoDevice
  /\ Len(emitted) > 0
  /\ emitted[1].op = "control" /\ emitted[1].id = 1
  /\ emitted[1].at = Len(fileHeader)


(***************************************************************************)
(* Catalogue lines that reference nothing (specification LoadSpec)         *)
(***************************************************************************)
\* line k names a message id and a signal name that earlier lines declared:
\* a message line with that id, and after it, before any other message line,
\* a signal line with that name
declaredEarlier(lines, k) ==
  \E i \in 1..(k - 1) : \E j \in (i + 1)..(k - 1) :
    /\ lines[i].kind = "BO" /\ lines[i].id = lines[k].id
    /\ lines[j].kind = "SG" /\ lines[j].name = lines[k].name
    /\ \A m \in (i + 1)..(j - 1) : lines[m].kind # "BO"

\* the lines read so far hold a line of the given kind that follows a
\* declaration of the signal it names
overridden(lines, upTo, kind, id, name) ==
  \E k \in 1..upTo :
    /\ lines[k].kind = kind /\ lines[k].id = id /\ lines[k].name = name
    /\ declaredEarlier(lines, k)

\* C12: a value-type or signal-comment line that references a message id or
\* signal name not declared on an earlier line does not fail the load: the
\* catalogue built so far is left as it is and loading goes on with the next
\* line; so a signal has a kind other than integer, or a description, only
\* through a line that follows its declaration.
C12_UndeclaredReferenceDropped ==
  /\ [][ (phase = "call" /\ pc < Len(call.lines)) =>
         LET line == call.lines[pc + 1]
         IN  (line.kind \in {"VALTYPE", "CM"} /\ ~declaredEarlier(call.lines, pc + 1)) =>
               /\ ret' = ret
               /\ pc' = pc + 1
               /\ phase' = "call"
               /\ error' = error
       ]_vars
  /\ [](\A obj \in 1..Len(ret[1].objs) :
          \A s \in 1..Len(ret[1].objs[obj].signals) :
            LET message == ret[1].objs[obj]
                signal == message.signals[s].value
            IN  /\ signal.dataType # "int" =>
                     overridden(call.lines, pc, "VALTYPE", message.id, signal.name)
                /\ signal.description # <<>> =>
                     overridden(call.lines, pc, "CM", message.id, signal.name))

\* a load that dropped a value-type line naming a signal not yet declared, and
\* then declared that signal with the integer kind and no description
C12_Witness ==
  /\ phase = "return"
  /\ call.lines = <<ValTypeLine(1, <<"S">>, 1), MessageLine(1, <<"M">>), SignalLine(<<"S">>)>>
  /\ Len(ret[1].objs) = 1
  /\ ret[1].objs[1].signals = <<[key |-> <<"S">>, value |-> SignalOfLine(SignalLine(<<"S">>))] >>
  /\ ret[1].objs[1].signals[1].value.dataType = "int"
  /\ ret[1].objs[1].signals[1].value.description = <<>>


(***************************************************************************)
(* The scan over the source entries (specification FairSpec)               *)
(***************************************************************************)
\* the widths the control byte at the read cursor declares
declaredIdWidth == (binary_data[cursor + 1] % 4) + 1

declaredSizeWidth == ((binary_data[cursor + 1] \div 4) % 4) + 1

\* C13: for every finite input the scan ends, completing or failing; the read
\* cursor never moves backwards and never passes the end of the input; an
\* entry that is fully read moves it by the control byte, the two declared
\* field widths and the declared payload, so by 3 bytes at least, and the next
\* framing starts after that payload; the sub-records are taken from the
\* entry's payload alone.
C13_ScanTerminates ==
  /\ <>Halted
  /\ [][ /\ cursor' >= cursor
         /\ cursor' <= Len(binary_data)
         /\ (phase = "scan" /\ phase' \in {"scan", "firmware", "periodic"}) =>
              /\ cursor' >= cursor + 3
              /\ cursor' = cursor + 1 + declaredIdWidth + declaredSizeWidth
                             + Len(payloadBytes')
              /\ payloadBytes' = SubSeq(binary_data, cursor' - Len(payloadBytes') + 1, cursor')
              /\ BytesToInt(SubSeq(binary_data, cursor + 2 + declaredIdWidth,
                                   cursor + 1 + declaredIdWidth + declaredSizeWidth))
                   = Len(payloadBytes')
              /\ pc' = 0
         /\ (phase \in {"firmware", "periodic"}) =>
              /\ cursor' = cursor
              /\ payloadBytes' = payloadBytes
              /\ pc' >= pc
              /\ pc' <= Len(payloadBytes)
       ]_vars

\* a conversion that has come to its end after reading two entries with
\* payloads, the cursor at the end of the input
C13_Witness ==
  /\ phase = "done"
  /\ binary_data = Block(1, F_Servo) \o Block(2, P_Spark0)
  /\ cursor = Len(binary_data)
  /\ cursor = 32


(***************************************************************************)
(* Recognized entries without output (specification Spec)                  *)
(***************************************************************************)
\* the output of a conversion that wrote no record: "WPILOG", version 1.0 and
\* an empty extra header
headerOnly == <<87, 80, 73, 76, 79, 71, 0, 1, 0, 0, 0, 0>>

\* C14: once the framing of an entry with id 1 or 2 is read the input has a
\* recognized entry; when every sub-record of every such entry is skipped, so
\* that no control or data record is emitted, the conversion still succeeds
\* and returns the 12-byte header alone.
C14_HeaderOnlyOutput ==
  (Halted /\ recordsProcessed /\ emitted = <<>> /\ error # "RangeError") =>
    /\ phase = "done"
    /\ returned = <<headerOnly>>

====
